---- MODULE Spec2Model ----
(***************************************************************************)
(* Verification model of the printshop-os extraction pipeline.             *)
(*                                                                         *)
(* Part 1: the paginated REST client, scripts/lib/printavo_api.py          *)
(*   (PrintavoAPI: request, fetch_paginated, iter_orders, the checkpoint   *)
(*   file), run against a fixed paginated source and a server whose        *)
(*   per-attempt behaviour is chosen freely.                               *)
(* Part 2: the artwork scraper, scripts/lib/printavo_scraper.py            *)
(*   (PrintavoScraper: scrape_orders, scrape_order, _download_file, the    *)
(*   scraper checkpoint file, the download workers).                      *)
(* Part 3: FileDetector (scripts/lib/file_detector.py), MinIOUploader      *)
(*   (scripts/lib/minio_uploader.py) and the resumable artwork upload      *)
(*   (scripts/sync-artwork-minio-v2.py).                                   *)
(*                                                                         *)
(* Times are in milliseconds.                                              *)
(***************************************************************************)
EXTENDS Integers, Sequences, FiniteSets, TLC

\* ------------------------------------------------------------------ bounds
\* Largest number of pages the source reports for a resource.
MaxPages == 11
\* Largest number of items on one page of the source.
MaxPageSize == 2
\* Calls of fetch_paginated / iter_orders made on one client object.
MaxCalls == 2
\* Process crashes (each followed by a new client on the same file).
MaxCrashes == 1
\* Largest page number that may be the source's empty page.
MaxEmptyPage == 3

\* Largest number of orders handed to scrape_orders.
MaxOrders == 21
\* Runs of the scraper on one checkpoint file.
MaxRuns == 2
\* Order pages that cannot be fetched.
MaxScrapeErrors == 1
\* Largest response body of a file download, in chunks.
MaxChunks == 2
\* _download_file: calls in one run
MaxDownloads == 3
\* scrape_orders step by step: distinct order ids, orders in the list,
\* files found on one order page.
MaxRecordIds == 2
MaxRecords == 2
MaxFound == 1
\* _extract_file_urls: elements of one order page
MaxElements == 2
\* MinIOUploader: local files per directory, and calls
MaxSyncFiles == 2
MaxExportFiles == 2
MaxArtworkFiles == 2
MaxUploadCalls == 2
\* The largest error list a bounded list is taken to allow.
MaxErrorList == 3
\* validate_file: largest size in bytes of a file without a full header
MaxFileBytes == 12
\* request(): calls on one client
MaxRequests == 2
\* sync-artwork-minio-v2: order folders on disk, files in one folder
MaxArtOrders == 3
MaxOrderFiles == 2
\* The download workers: orders of one run, files submitted for one order
MaxPoolOrders == 1
MaxBatch == 2

\* ------------------------------------------------------- program constants
REQUEST_DELAY == 600
MAX_RETRIES == 3
CHECKPOINT_EVERY == 5
RATE_LIMIT_BASE == 5000
RETRY_BASE == 1000
CHECKPOINT_INTERVAL == 20
MIN_FILE_SIZE == 10
DST_HEADER == 512
max_retries == 3
MAX_CONCURRENT_DOWNLOADS == 5

Endpoints == {"customers", "orders"}

\* The server's behaviours for one HTTP attempt:
\*   ok           200 with a JSON body
\*   rate_limited 429
\*   timeout      requests.exceptions.Timeout
\*   error        another RequestException (network error, or the HTTPError
\*                raise_for_status raises for a 4xx/5xx status)
\*   badjson      200 whose body is not JSON: response.json() raises
\*                requests' JSONDecodeError, a RequestException
Outcomes == {"ok", "rate_limited", "timeout", "error", "badjson"}

VARIABLES
    srcT,        \* source: number of pages of every paginated resource
    srcWrapped,  \* source: TRUE {data, meta} pages, FALSE a bare array
    srcEmpty,    \* source: the page that carries no items (0: none)
    file,        \* the checkpoint file on disk
    mem,         \* self._checkpoint
    pc,          \* the client's position
    mode,        \* "none" | "fetch" | "iter": the running call
    endpoint,    \* endpoint of the running call
    page,        \* local variable page
    all_data,    \* local variable all_data (iter_orders: the items yielded)
    aliased,     \* all_data is the list object stored in self._checkpoint
    attempt,     \* loop variable of request()
    response,    \* what request() returned: "json" | "none"
    inflight,    \* HTTP requests sent and not yet answered
    slept,       \* time slept since the last HTTP request was sent (-1: none sent)
    gap,         \* while a request is in flight: the time slept between the
                 \* request before it and it (-1: no earlier request)
    last,        \* the last answered attempt of the running request() call
    sends,       \* page of every request() call made by the running call
    respLog,     \* what request() returned for each page of the running call
    cur,         \* facts about the running call recorded at its start
    called,      \* endpoints fetch_paginated was called for on this client
    calls,       \* calls made on this client
    crashes,     \* crashes so far
    ret,         \* the last call that returned on this client
    prev,        \* the call that returned before it
    \* --- PrintavoScraper.scrape_orders
    nOrders,     \* len(orders); the orders' ids are 1..nOrders, in list order
    scrPc,       \* position of the process running scrape_orders
    idx,         \* loop variable i
    completed,   \* self._completed_orders
    scrFile,     \* the scraper's checkpoint file
    worked,      \* ids scrape_order did not skip in this run
    scrErrors,   \* order pages that could not be fetched so far
    run,         \* number of the run
    exitCompleted, \* self._completed_orders when the interrupted run exited
    interrupted, \* an earlier run was interrupted
    \* --- PrintavoScraper._download_file
    disk,        \* the output paths: size in chunks (-1: no file) and content
    dlPc,        \* position inside _download_file
    dlFile,      \* the file being downloaded
    dlBody,      \* the response body being streamed
    flagged,     \* files with file.downloaded = True in this run
    validated,   \* files whose content on disk was written in full and validated
    dlStats,     \* self.stats: files_downloaded, bytes_downloaded (in chunks),
                 \* files_skipped, files_failed
    dlGets,      \* HTTP GETs _download_file sent in this run
    dlCalls,     \* calls of _download_file in this run
    \* --- PrintavoScraper: login and scrape_order
    orders,      \* the ids of the orders handed to scrape_orders, in order
    loggedIn,    \* self._logged_in
    logins,      \* calls of login() in this run
    landing,     \* where the credential POST of this run ended
    pageGets,    \* GETs of order pages sent for the order last worked on in
                 \* this run (0: no order page was requested in this run)
    urlTry,      \* position in urls_to_try
    rec,         \* the order scrape_order works on, and how far it got
    manifests,   \* ids of the orders with a manifest.json on disk
    recStats,    \* self.stats of this run
    lastResult,  \* status of the result of the last scrape_order call
    \* --- PrintavoScraper._extract_file_urls
    exPage,      \* the elements of the order page, in document order
    exSel,       \* position in the list of selectors
    exFiles,     \* local variable files
    exSeen,      \* local variable seen_urls
    exPc,        \* position inside _extract_file_urls
    \* --- MinIOUploader
    bucket,      \* the objects in the bucket
    upPc,        \* position of the uploader
    upOp,        \* the running call: "sync" | "archive"
    upKind,      \* the files the running loop walks
    upI,         \* position in the list of files
    upConnected, \* self._connected
    upStats,     \* self.stats counters
    upErrors,    \* self.stats.errors
    upLocal,     \* local counters uploaded and skipped of the running call
    upCalls,     \* calls made so far
    upOver,      \* objects the running call uploaded over an existing object
    upFull,      \* the bucket held every target object when the call began
    upRet        \* the last result returned

VARIABLES
    \* --- FileDetector
    fdOp,        \* the function the calls are made of
    fdExt,       \* the extension name categorize_extension is called for
    fdCat,       \* what categorize_extension returned for each spelling
    fdPrio,      \* what get_priority returned for each FileType (-1: no call)
    fdVal,       \* the file validate_file is called for, the expected type and
                 \* the message returned
    \* --- PrintavoAPI.request on its own
    rqPc,        \* position inside request(): "idle" | "attempt" | "returned"
    rqAttempt,   \* loop variable attempt
    rqAnswers,   \* the server's answers to the attempts of the running call
    rqErrors,    \* len(self.stats.errors)
    rqErrors0,   \* len(self.stats.errors) when the running call began
    rqRet,       \* what the last call returned: "json" | "none"
    rqCalls,     \* calls of request() so far
    \* --- sync-artwork-minio-v2: main
    avPc,        \* position of the process running main
    avShutdown,  \* the module's global shutdown_requested
    avLocal,     \* main's local name shutdown_requested: "unbound" | "true"
    avOrders,    \* the order folders with files under ARTWORK_DIR
    avFile,      \* the upload checkpoint file
    avCheckpoint, \* checkpoint["uploaded_orders"]
    avPending,   \* local variable pending
    avI,         \* position of the for loop in pending
    avStarted,   \* the orders whose upload was started in this run
    avSaved,     \* save_checkpoint ran in this run
    avRaised,    \* the exception main is left with ("none": none)
    \* --- sync-artwork-minio-v2: upload_order
    uoPc,        \* position inside upload_order
    uoN,         \* number of files in the order folder
    uoF,         \* the file the loop is at, 1..uoN
    uoAttempt,   \* loop variable attempt
    uoStored,    \* the files of the order stored in the bucket
    uoCount,     \* local variable files_uploaded
    uoAnswers,   \* the outcomes of the fput_object calls so far
    uoRet,       \* the success flag returned ("none": not returned)
    \* --- _extract_file_urls run again on the same page
    exPrev,      \* the filenames the run before assigned, in order
    \* --- PrintavoScraper: the download workers and the thread of scrape_orders
    plMain,      \* position of the thread running scrape_orders
    plN,         \* len(orders); the orders' ids are 1..plN
    plInterval,  \* argument checkpoint_interval
    plOrder,     \* the order the loop is at
    plW,         \* the tasks submitted for the order: position, outcome and
                 \* the counter value the worker has read
    plStats,     \* self.stats: the four file counters
    plBefore,    \* self.stats when the tasks were submitted
    plCompleted, \* self._completed_orders
    plFile,      \* the scraper's checkpoint file
    plActor      \* the thread that took the last step: "main" | "worker"

apiVars == <<srcT, srcWrapped, srcEmpty, file, mem, pc, mode, endpoint, page,
             all_data, aliased, attempt, response, inflight, slept, gap, last,
             sends, respLog, cur, called, calls, crashes, ret, prev>>

scraperVars == <<nOrders, scrPc, idx, completed, scrFile, worked, scrErrors,
                 run, exitCompleted, interrupted>>

downloadVars == <<disk, dlPc, dlFile, dlBody, flagged, validated, dlStats,
                  dlGets, dlCalls>>

recordVars == <<orders, loggedIn, logins, landing, pageGets, urlTry, rec,
                manifests, recStats, lastResult>>

extractVars == <<exPage, exSel, exFiles, exSeen, exPc>>

uploadVars == <<bucket, upPc, upOp, upKind, upI, upConnected, upStats,
                upErrors, upLocal, upCalls, upOver, upFull, upRet>>

detectorVars == <<fdOp, fdExt, fdCat, fdPrio, fdVal>>

\* The clients of the remote services, and the components checked on their own.
earlierVars == <<apiVars, scraperVars, downloadVars, recordVars, extractVars,
                 uploadVars>>
requestVars == <<rqPc, rqAttempt, rqAnswers, rqErrors, rqErrors0, rqRet, rqCalls>>
mainVars == <<avPc, avShutdown, avLocal, avOrders, avFile, avCheckpoint,
              avPending, avI, avStarted, avSaved, avRaised>>
orderVars == <<uoPc, uoN, uoF, uoAttempt, uoStored, uoCount, uoAnswers, uoRet>>
poolVars == <<plMain, plN, plInterval, plOrder, plW, plStats, plBefore,
              plCompleted, plFile, plActor>>
laterVars == <<detectorVars, requestVars, mainVars, orderVars, exPrev, poolVars>>

vars == <<earlierVars, laterVars>>

\* What the operations of one component leave alone.
outsideApi == <<scraperVars, downloadVars, recordVars, extractVars, uploadVars,
    laterVars>>
outsideScraper == <<apiVars, downloadVars, recordVars, extractVars, uploadVars,
    laterVars>>
outsideDownload == <<apiVars, scraperVars, recordVars, extractVars, uploadVars,
    laterVars>>
outsideRecord == <<apiVars, downloadVars, extractVars, uploadVars,
    laterVars>>
outsideExtract == <<apiVars, scraperVars, downloadVars, recordVars, uploadVars,
    laterVars>>
outsideUpload == <<apiVars, scraperVars, downloadVars, recordVars, extractVars,
    laterVars>>
outsideDetector == <<earlierVars, requestVars, mainVars, orderVars, exPrev, poolVars>>
outsideRequest == <<earlierVars, detectorVars, mainVars, orderVars, exPrev, poolVars>>
outsideMain == <<earlierVars, detectorVars, requestVars, orderVars, exPrev, poolVars>>
outsideOrder == <<earlierVars, detectorVars, requestVars, mainVars, exPrev, poolVars>>
outsidePool == <<earlierVars, detectorVars, requestVars, mainVars, orderVars, exPrev>>

\* ------------------------------------------------------------- the source
Pow2(n) == 2 ^ n

\* Identifier of the i-th item of page p: distinct pages carry distinct ids.
Item(p, i) == p * 10 + i

PageSize(p) == IF p = srcEmpty THEN 0 ELSE 1 + (p % MaxPageSize)

\* The items the server returns for ?page=p. A wrapped source has pages
\* 1..srcT and nothing beyond; a bare-array source answers every request
\* with its whole (single-page) array.
PageItems(p) ==
    LET q == IF srcWrapped THEN p ELSE 1
    IN  IF q \in 1..srcT THEN [i \in 1..PageSize(q) |-> Item(q, i)] ELSE <<>>

RECURSIVE ConcatPages(_, _)
ConcatPages(from, to) ==
    IF from > to THEN <<>> ELSE PageItems(from) \o ConcatPages(from + 1, to)

\* ------------------------------------------------------ checkpoint values
EmptyEntry == [hasPage |-> FALSE, page |-> 0, hasData |-> FALSE, data |-> <<>>]
EmptyCheckpoint == [e \in Endpoints |-> EmptyEntry]
NoFile == [state |-> "absent", ck |-> EmptyCheckpoint]
CorruptFile == [state |-> "corrupt", ck |-> EmptyCheckpoint]

NoRet == [mode |-> "none", endpoint |-> "orders", result |-> <<>>, sends |-> <<>>,
          resp |-> <<>>, fresh |-> FALSE, first |-> FALSE, resumed |-> FALSE,
          cursor0 |-> 0, clean |-> FALSE]
NoLast == [attempt |-> -1, outcome |-> "none", sleep |-> 0]
NoCur == [fresh |-> FALSE, first |-> FALSE, resumed |-> FALSE, cursor0 |-> 0,
          clean |-> FALSE]

\* _load_checkpoint: the file's JSON, or {} when absent or undecodable.
LoadCheckpoint(f) == IF f.state = "ok" THEN f.ck ELSE EmptyCheckpoint

\* json.dump(self._checkpoint) into the file opened with 'w'.
WriteFile(ck) == [state |-> "ok", ck |-> ck]

\* ------------------------------------------------------------ request()
\* wait_time = 5 * (2 ** attempt)
RateLimitWait(a) == RATE_LIMIT_BASE * Pow2(a)

\* time.sleep(2 ** attempt)
RetryWait(a) == RETRY_BASE * Pow2(a)

\* The retry loop running one attempt too many.
HasNextAttemptOneMore(a) == a + 1 <= MAX_RETRIES

\* for attempt in range(self.MAX_RETRIES): is there another attempt after a?
HasNextAttempt(a) == a + 1 < MAX_RETRIES

\* except RequestException: if attempt < self.MAX_RETRIES - 1
ErrorRetries(a) == a < MAX_RETRIES - 1

\* Time request() sleeps after the server's answer o to attempt a.
SleepAfter(o, a) ==
    CASE o = "ok"           -> REQUEST_DELAY
      [] o = "rate_limited" -> RateLimitWait(a)
      [] o = "timeout"      -> RetryWait(a)
      [] o = "error"        -> IF ErrorRetries(a) THEN RetryWait(a) ELSE 0
      [] o = "badjson"      -> REQUEST_DELAY + (IF ErrorRetries(a) THEN RetryWait(a) ELSE 0)

\* Whether request() returns after the answer o to attempt a.
ReturnsAfter(o, a) ==
    CASE o = "ok"           -> TRUE
      [] o = "rate_limited" -> ~HasNextAttempt(a)
      [] o = "timeout"      -> ~HasNextAttempt(a)
      [] o = "error"        -> ~ErrorRetries(a)
      [] o = "badjson"      -> ~ErrorRetries(a)

\* ------------------------------------------------------ fetch_paginated
\* page = self._checkpoint[resume_key] if present, else 1
StartPage(entry) == IF entry.hasPage THEN entry.page ELSE 1

\* all_data = self._checkpoint[data_key] when both keys are present
ResumesData(entry) == entry.hasPage /\ entry.hasData

\* total_pages: 1 for a list response, meta.total_pages for a dict
TotalPages == IF srcWrapped THEN srcT ELSE 1

\* if page % 5 == 0
CheckpointDue(p) == p % CHECKPOINT_EVERY = 0

\* The loop's exit test off by one.
LastPageOffByOne(p, total) == p > total

\* if page >= total_pages: break
LastPage(p, total) == p >= total

\* iter_orders: if not data: break
IterStopsOnEmpty(data) == data = <<>>

\* The call returns: its result and history are recorded, locals are dropped.
Return(result, resp) ==
    /\ pc' = "idle"
    /\ prev' = ret
    /\ ret' = [mode |-> mode, endpoint |-> endpoint, result |-> result,
               sends |-> sends, resp |-> resp, fresh |-> cur.fresh,
               first |-> cur.first, resumed |-> cur.resumed,
               cursor0 |-> cur.cursor0, clean |-> cur.clean]
    /\ mode' = "none"
    /\ all_data' = <<>>
    /\ sends' = <<>>
    /\ respLog' = <<>>
    /\ last' = NoLast
    /\ page' = 0
    /\ attempt' = 0
    /\ aliased' = FALSE
    /\ cur' = NoCur

\* Next iteration of the page loop: request(endpoint, {'page': page + 1, ...}).
NextPage(data, resp) ==
    /\ pc' = "send"
    /\ page' = page + 1
    /\ attempt' = 0
    /\ last' = NoLast
    /\ all_data' = data
    /\ respLog' = resp
    /\ UNCHANGED <<prev, ret, mode, sends, cur>>

\* The client after __init__ with no checkpoint file on disk.
ApiStart ==
    /\ file = NoFile
    /\ mem = EmptyCheckpoint
    /\ pc = "idle"
    /\ mode = "none"
    /\ endpoint = "orders"
    /\ page = 0
    /\ all_data = <<>>
    /\ aliased = FALSE
    /\ attempt = 0
    /\ response = "none"
    /\ inflight = 0
    /\ slept = -1
    /\ gap = -1
    /\ last = NoLast
    /\ sends = <<>>
    /\ respLog = <<>>
    /\ cur = NoCur
    /\ called = {}
    /\ calls = 0
    /\ crashes = 0
    /\ ret = NoRet
    /\ prev = NoRet

\* The sources the client is run against.
ApiSource ==
    /\ srcWrapped \in BOOLEAN
    /\ srcT \in 1..MaxPages
    /\ srcWrapped = FALSE => srcT = 1
    /\ srcEmpty \in 0..srcT
    /\ srcEmpty <= MaxEmptyPage

\* The client is not part of the run.
ApiUnused == srcWrapped = TRUE /\ srcT = 1 /\ srcEmpty = 0 /\ ApiStart

\* fetch_paginated, lines 175-185: the resume point is read from the checkpoint.
FetchPaginated(e) ==
    /\ UNCHANGED outsideApi
    /\ pc = "idle"
    /\ calls < MaxCalls
    /\ calls' = calls + 1
    /\ mode' = "fetch"
    /\ endpoint' = e
    /\ page' = StartPage(mem[e])
    /\ all_data' = IF ResumesData(mem[e]) THEN mem[e].data ELSE <<>>
    /\ aliased' = ResumesData(mem[e])
    /\ cur' = [fresh |-> ~mem[e].hasPage, first |-> e \notin called,
               resumed |-> crashes > 0, cursor0 |-> StartPage(mem[e]),
               clean |-> TRUE]
    /\ called' = called \cup {e}
    /\ attempt' = 0
    /\ last' = NoLast
    /\ sends' = <<>>
    /\ respLog' = <<>>
    /\ pc' = "send"
    /\ UNCHANGED <<srcT, srcWrapped, srcEmpty, file, mem, response, inflight,
                   slept, gap, crashes>>

\* iter_orders, line 485: always starts at page 1, reads no checkpoint.
IterOrders ==
    /\ UNCHANGED outsideApi
    /\ pc = "idle"
    /\ calls < MaxCalls
    /\ calls' = calls + 1
    /\ mode' = "iter"
    /\ endpoint' = "orders"
    /\ page' = 1
    /\ all_data' = <<>>
    /\ aliased' = FALSE
    /\ cur' = [fresh |-> TRUE, first |-> TRUE, resumed |-> crashes > 0,
               cursor0 |-> 1, clean |-> TRUE]
    /\ attempt' = 0
    /\ last' = NoLast
    /\ sends' = <<>>
    /\ respLog' = <<>>
    /\ pc' = "send"
    /\ UNCHANGED <<srcT, srcWrapped, srcEmpty, file, mem, response, inflight,
                   slept, gap, called, crashes>>

\* A call whose caller keeps nothing of the calls before it.
CallFetch(e) == FetchPaginated(e) /\ ret' = NoRet /\ prev' = NoRet

CallIter == IterOrders /\ ret' = NoRet /\ prev' = NoRet

\* A call made while the result of the call before it is still held.
NextFetch(e) == FetchPaginated(e) /\ UNCHANGED <<ret, prev>>

NextIter == IterOrders /\ UNCHANGED <<ret, prev>>

\* request(), lines 126-132: one HTTP attempt goes out.
Send ==
    /\ UNCHANGED outsideApi
    /\ pc = "send"
    /\ pc' = "wait"
    /\ inflight' = inflight + 1
    /\ gap' = slept
    /\ slept' = 0
    /\ sends' = IF attempt = 0 THEN Append(sends, page) ELSE sends
    /\ UNCHANGED <<srcT, srcWrapped, srcEmpty, file, mem, mode, endpoint, page,
                   all_data, aliased, attempt, response, last, respLog, cur,
                   called, calls, crashes, ret, prev>>

\* request(), lines 135-156: the answer to the attempt arrives and is handled:
\* the sleep, then either the next attempt or the return to the caller.
Respond(o) ==
    /\ UNCHANGED outsideApi
    /\ pc = "wait"
    /\ inflight' = inflight - 1
    /\ gap' = -1
    /\ slept' = slept + SleepAfter(o, attempt)
    /\ last' = [attempt |-> attempt, outcome |-> o, sleep |-> SleepAfter(o, attempt)]
    /\ cur' = [cur EXCEPT !.clean = cur.clean /\ o = "ok"]
    /\ IF ReturnsAfter(o, attempt)
         THEN /\ pc' = "page"
              /\ response' = IF o = "ok" THEN "json" ELSE "none"
              /\ attempt' = attempt
         ELSE /\ pc' = "send"
              /\ response' = response
              /\ attempt' = attempt + 1
    /\ UNCHANGED <<srcT, srcWrapped, srcEmpty, file, mem, mode, endpoint, page,
                   all_data, aliased, sends, respLog, called, calls, crashes,
                   ret, prev>>

\* fetch_paginated, lines 190-219, up to the first checkpoint write.
FetchPage ==
    /\ UNCHANGED outsideApi
    /\ pc = "page"
    /\ mode = "fetch"
    /\ LET resp == Append(respLog, <<page, response>>)
           data == all_data \o PageItems(page)
       IN  IF response = "none"
             THEN /\ Return(all_data, resp)
                  /\ mem' = mem
             ELSE /\ mem' = IF aliased THEN [mem EXCEPT ![endpoint].data = data]
                                       ELSE mem
                  /\ IF CheckpointDue(page)
                       THEN /\ pc' = "ckpt_cursor"
                            /\ all_data' = data
                            /\ respLog' = resp
                            /\ UNCHANGED <<prev, ret, mode, sends, last, page,
                                           attempt, aliased, cur>>
                       ELSE IF LastPage(page, TotalPages)
                              THEN Return(data, resp)
                              ELSE NextPage(data, resp) /\ aliased' = aliased
    /\ UNCHANGED <<srcT, srcWrapped, srcEmpty, file, endpoint, response,
                   inflight, slept, gap, called, calls, crashes>>

\* Line 214: self._save_checkpoint(resume_key, page + 1).
SaveCursor ==
    /\ UNCHANGED outsideApi
    /\ pc = "ckpt_cursor"
    /\ mem' = [mem EXCEPT ![endpoint].hasPage = TRUE, ![endpoint].page = page + 1]
    /\ file' = WriteFile(mem')
    /\ pc' = "ckpt_data"
    /\ UNCHANGED <<srcT, srcWrapped, srcEmpty, mode, endpoint, page, all_data,
                   aliased, attempt, response, inflight, slept, gap, last,
                   sends, respLog, cur, called, calls, crashes, ret, prev>>

\* Line 215: self._save_checkpoint(f"{endpoint}_data", all_data), which stores
\* the list object itself, and then lines 217-219.
SaveData ==
    /\ UNCHANGED outsideApi
    /\ pc = "ckpt_data"
    /\ mem' = [mem EXCEPT ![endpoint].hasData = TRUE, ![endpoint].data = all_data]
    /\ file' = WriteFile(mem')
    /\ IF LastPage(page, TotalPages)
         THEN Return(all_data, respLog)
         ELSE NextPage(all_data, respLog) /\ aliased' = TRUE
    /\ UNCHANGED <<srcT, srcWrapped, srcEmpty, endpoint, response, inflight,
                   slept, gap, called, calls, crashes>>

\* iter_orders, lines 490-510.
IterPage ==
    /\ UNCHANGED outsideApi
    /\ pc = "page"
    /\ mode = "iter"
    /\ LET resp == Append(respLog, <<page, response>>)
           data == PageItems(page)
       IN  IF response = "none" \/ IterStopsOnEmpty(data)
             THEN Return(all_data, resp)
             ELSE IF LastPage(page, TotalPages)
                    THEN Return(all_data \o data, resp)
                    ELSE NextPage(all_data \o data, resp) /\ aliased' = aliased
    /\ UNCHANGED <<srcT, srcWrapped, srcEmpty, file, mem, endpoint, response,
                   inflight, slept, gap, called, calls, crashes>>

\* The process stops at any point; a new run builds a new client on the
\* checkpoint file it finds (__init__, lines 75-79).
NewClient(f) ==
    /\ UNCHANGED outsideApi
    /\ crashes < MaxCrashes
    /\ crashes' = crashes + 1
    /\ file' = f
    /\ mem' = LoadCheckpoint(f)
    /\ pc' = "idle"
    /\ mode' = "none"
    /\ endpoint' = "orders"
    /\ page' = 0
    /\ all_data' = <<>>
    /\ aliased' = FALSE
    /\ attempt' = 0
    /\ response' = "none"
    /\ inflight' = 0
    /\ slept' = -1
    /\ gap' = -1
    /\ last' = NoLast
    /\ sends' = <<>>
    /\ respLog' = <<>>
    /\ cur' = NoCur
    /\ called' = {}
    /\ calls' = 0
    /\ ret' = NoRet
    /\ prev' = NoRet
    /\ UNCHANGED <<srcT, srcWrapped, srcEmpty>>

Crash == NewClient(file)

\* The process stops inside json.dump: the file, truncated by open(.., 'w'),
\* holds an incomplete document.
CrashInWrite ==
    /\ pc \in {"ckpt_cursor", "ckpt_data"}
    /\ NewClient(CorruptFile)

\* ======================================================================
\* PrintavoScraper: scrape_orders and its checkpoint
\* ======================================================================
NoScraperFile == [exists |-> FALSE, ids |-> {}]

\* _load_checkpoint: set(self._checkpoint.get('completed_orders', []))
LoadCompleted(f) == IF f.exists THEN f.ids ELSE {}

\* _save_checkpoint: completed_orders = list(self._completed_orders)
SaveCompleted(ids) == [exists |-> TRUE, ids |-> ids]

\* if (i + 1) % checkpoint_interval == 0
IntervalDue(i) == (i + 1) % CHECKPOINT_INTERVAL = 0

\* What scrape_order does with an order:
\*   skipped  the id is in self._completed_orders
\*   error    no order page could be fetched
\*   no_files the page lists no files
\*   files    files were found and downloaded
ScrapeOutcomes == {"skipped", "error", "no_files", "files"}

\* scrape_order adds the id to self._completed_orders
MarksComplete(o) == o \in {"no_files", "files"}

ScraperStart ==
    /\ nOrders \in 1..MaxOrders
    /\ scrPc = "loop"
    /\ idx = 0
    /\ completed = {}
    /\ scrFile = NoScraperFile
    /\ worked = {}
    /\ scrErrors = 0
    /\ run = 1
    /\ exitCompleted = {}
    /\ interrupted = FALSE

ScraperUnused ==
    /\ nOrders = 0
    /\ scrPc = "unused"
    /\ idx = 0
    /\ completed = {}
    /\ scrFile = NoScraperFile
    /\ worked = {}
    /\ scrErrors = 0
    /\ run = 0
    /\ exitCompleted = {}
    /\ interrupted = FALSE

\* scrape_orders, lines 612-614: scrape_order(order) for the next order.
ScrapeOrder(o) ==
    /\ scrPc = "loop"
    /\ LET id == idx + 1
       IN  /\ (id \in completed) <=> (o = "skipped")
           /\ o = "error" => scrErrors < MaxScrapeErrors
           /\ scrErrors' = IF o = "error" THEN scrErrors + 1 ELSE scrErrors
           /\ completed' = IF MarksComplete(o) THEN completed \cup {id} ELSE completed
           /\ worked' = IF o = "skipped" THEN worked ELSE worked \cup {id}
    /\ scrPc' = "interval"
    /\ UNCHANGED <<nOrders, idx, scrFile, run, exitCompleted, interrupted>>
    /\ UNCHANGED outsideScraper

\* scrape_orders, lines 619-621: the periodic checkpoint, and the loop goes on.
IntervalCheckpoint ==
    /\ scrPc = "interval"
    /\ scrFile' = IF IntervalDue(idx) THEN SaveCompleted(completed) ELSE scrFile
    /\ idx' = idx + 1
    /\ scrPc' = IF idx + 1 = nOrders THEN "final" ELSE "loop"
    /\ UNCHANGED <<nOrders, completed, worked, scrErrors, run, exitCompleted,
                   interrupted>>
    /\ UNCHANGED outsideScraper

\* scrape_orders, line 624: the final checkpoint, and the summary is returned.
FinalCheckpoint ==
    /\ scrPc = "final"
    /\ scrFile' = SaveCompleted(completed)
    /\ scrPc' = "returned"
    /\ UNCHANGED <<nOrders, idx, completed, worked, scrErrors, run,
                   exitCompleted, interrupted>>
    /\ UNCHANGED outsideScraper

\* SIGINT: KeyboardInterrupt is raised in scrape_orders, which does not catch
\* it; main (printavo-extract-all.py, lines 731-734) prints and exits.
Interrupt ==
    /\ scrPc \in {"loop", "interval", "final"}
    /\ scrPc' = "exited"
    /\ exitCompleted' = completed
    /\ interrupted' = TRUE
    /\ UNCHANGED <<nOrders, idx, completed, scrFile, worked, scrErrors, run>>
    /\ UNCHANGED outsideScraper

\* A later run over the same orders with the same checkpoint file:
\* PrintavoScraper.__init__ loads the file, scrape_orders starts over.
Rerun ==
    /\ scrPc \in {"exited", "returned"}
    /\ run < MaxRuns
    /\ run' = run + 1
    /\ completed' = LoadCompleted(scrFile)
    /\ idx' = 0
    /\ worked' = {}
    /\ scrPc' = "loop"
    /\ UNCHANGED <<nOrders, scrFile, scrErrors, exitCompleted, interrupted>>
    /\ UNCHANGED outsideScraper

NextScraper ==
    \/ \E o \in ScrapeOutcomes : ScrapeOrder(o)
    \/ IntervalCheckpoint
    \/ FinalCheckpoint
    \/ Interrupt
    \/ Rerun

\* ======================================================================
\* PrintavoScraper._download_file
\* ======================================================================
Files == {"mockup.png", "design.dst", "file.bin"}

FileTypes == {"artwork", "vector", "document", "embroidery", "source", "unknown"}

NoDiskFile == [size |-> -1, kind |-> "none"]
NoBody == [len |-> 0, kind |-> "none"]

\* The FileType whose magic-byte signature the leading bytes of a body match
\* ("unknown": none of them, as for an HTML error page or headerless stitches).
MagicTypes == {"artwork", "document", "unknown"}

\* The bodies a server may send: a length in chunks (iter_content yields
\* chunks of 8192 bytes), and the signature of its leading bytes.
Bodies == [len : 0..MaxChunks, kind : MagicTypes]

\* file.file_type, set by _extract_file_urls from FileDetector.detect_from_url:
\* EXTENSION_MAP of the URL's extension, UNKNOWN for an extension it lacks.
ExpectedType(f) ==
    CASE f = "mockup.png" -> "artwork"
      [] f = "design.dst" -> "embroidery"
      [] OTHER -> "unknown"

\* EXTENSION_MAP of output_path.suffix ("none": not in the map). The filename
\* carries the URL's extension (FileDetector.generate_filename).
SuffixType(f) ==
    CASE f = "mockup.png" -> "artwork"
      [] f = "design.dst" -> "embroidery"
      [] OTHER -> "none"

\* FileDetector.detect_from_content on the first 512 bytes.
DetectFromContent(d) == d.kind

\* FileDetector.detect_from_file: the extension of the path first, the magic
\* bytes only when the extension is not in EXTENSION_MAP.
DetectFromFile(f, d) ==
    IF SuffixType(f) # "none" THEN SuffixType(f) ELSE DetectFromContent(d)

\* The size test dropped for files of one chunk.
ExistsWithContentOverOneChunk(d) == d.size > 1

\* output_path.exists() and output_path.stat().st_size > 0
ExistsWithContent(d) == d.size > 0

\* FileDetector.validate_file(output_path, file.file_type) on the written
\* file: an empty file is invalid (a chunk is taken to hold at least the 10
\* bytes a valid file needs), and so is a file whose detected type is known
\* and differs from the expected one. The expected type is always supplied,
\* and a FileType member is truthy, UNKNOWN included.
ValidateFile(f, d) ==
    /\ d.size > 0
    /\ DetectFromFile(f, d) # "unknown" => DetectFromFile(f, d) = ExpectedType(f)

NoStats == [downloaded |-> 0, bytes |-> 0, skipped |-> 0, failed |-> 0]

DownloadStart ==
    /\ disk = [f \in Files |-> NoDiskFile]
    /\ dlPc = "idle"
    /\ dlFile = "mockup.png"
    /\ dlBody = NoBody
    /\ flagged = {}
    /\ validated = {}
    /\ dlStats = NoStats
    /\ dlGets = 0
    /\ dlCalls = 0

DownloadUnused == DownloadStart

\* _download_file, lines 339-355: an existing non-empty file is skipped,
\* counted and reported as downloaded; otherwise the GET is sent.
BeginDownload(f) ==
    /\ dlPc = "idle"
    /\ dlCalls < MaxDownloads
    /\ dlCalls' = dlCalls + 1
    /\ dlFile' = f
    /\ IF ExistsWithContent(disk[f])
         THEN /\ dlStats' = [dlStats EXCEPT !.skipped = @ + 1]
              /\ flagged' = flagged \cup {f}
              /\ dlPc' = "idle"
              /\ dlGets' = dlGets
         ELSE /\ dlStats' = dlStats
              /\ flagged' = flagged
              /\ dlPc' = "get"
              /\ dlGets' = dlGets + 1
    /\ UNCHANGED <<disk, dlBody, validated>>
    /\ UNCHANGED outsideDownload

\* Lines 349-355 and 384-387: the GET fails, or raise_for_status raises.
GetFails ==
    /\ dlPc = "get"
    /\ dlPc' = "idle"
    /\ dlStats' = [dlStats EXCEPT !.failed = @ + 1]
    /\ UNCHANGED <<disk, dlFile, dlBody, flagged, validated, dlGets, dlCalls>>
    /\ UNCHANGED outsideDownload

\* Lines 349-359: the response arrives and open(output_path, 'wb') creates
\* the file, empty.
OpenOutput(b) ==
    /\ dlPc = "get"
    /\ dlBody' = b
    /\ disk' = [disk EXCEPT ![dlFile] = [size |-> 0, kind |-> b.kind]]
    /\ validated' = validated \ {dlFile}
    /\ dlPc' = "stream"
    /\ UNCHANGED <<dlFile, flagged, dlStats, dlGets, dlCalls>>
    /\ UNCHANGED outsideDownload

\* Lines 360-361: f.write(chunk) for the next chunk of the body.
WriteChunk ==
    /\ dlPc = "stream"
    /\ disk[dlFile].size < dlBody.len
    /\ disk' = [disk EXCEPT ![dlFile].size = @ + 1]
    /\ UNCHANGED <<dlPc, dlFile, dlBody, flagged, validated, dlStats, dlGets,
                   dlCalls>>
    /\ UNCHANGED outsideDownload

\* Line 360 and lines 384-387: the connection breaks while the body is
\* streamed; iter_content raises a RequestException, which is caught,
\* counted, and answered with False. The output file is not touched.
StreamFails ==
    /\ dlPc = "stream"
    /\ disk[dlFile].size < dlBody.len
    /\ dlPc' = "idle"
    /\ dlBody' = NoBody
    /\ dlStats' = [dlStats EXCEPT !.failed = @ + 1]
    /\ UNCHANGED <<disk, dlFile, flagged, validated, dlGets, dlCalls>>
    /\ UNCHANGED outsideDownload

\* Lines 363-382: the body is complete; the file is validated, deleted and
\* counted as failed when invalid, counted and reported as downloaded when
\* valid.
FinishDownload ==
    /\ dlPc = "stream"
    /\ disk[dlFile].size = dlBody.len
    /\ IF ValidateFile(dlFile, disk[dlFile])
         THEN /\ flagged' = flagged \cup {dlFile}
              /\ validated' = validated \cup {dlFile}
              /\ disk' = disk
              /\ dlStats' = [dlStats EXCEPT !.downloaded = @ + 1,
                                            !.bytes = @ + disk[dlFile].size]
         ELSE /\ disk' = [disk EXCEPT ![dlFile] = NoDiskFile]
              /\ dlStats' = [dlStats EXCEPT !.failed = @ + 1]
              /\ UNCHANGED <<flagged, validated>>
    /\ dlPc' = "idle"
    /\ dlBody' = NoBody
    /\ UNCHANGED <<dlFile, dlGets, dlCalls>>
    /\ UNCHANGED outsideDownload

\* The process stops at any point; a later run starts with what is on disk.
DownloadCrash ==
    /\ dlPc' = "idle"
    /\ dlBody' = NoBody
    /\ flagged' = {}
    /\ dlStats' = NoStats
    /\ dlGets' = 0
    /\ dlCalls' = 0
    /\ UNCHANGED <<disk, dlFile, validated>>
    /\ UNCHANGED outsideDownload

NextDownload ==
    \/ \E f \in Files : BeginDownload(f)
    \/ GetFails
    \/ \E b \in Bodies : OpenOutput(b)
    \/ WriteChunk
    \/ StreamFails
    \/ FinishDownload
    \/ DownloadCrash

\* ======================================================================
\* PrintavoScraper: login, scrape_orders and scrape_order step by step
\* ======================================================================
\* Identifiers of the records handed to scrape_orders; the list may name a
\* record twice.
RecordIds == 1..MaxRecordIds

OrderLists == UNION {[1..n -> RecordIds] : n \in 1..MaxRecords}

\* login, line 205: the substrings of response.url that mean success.
LandingMarkers == {"dashboard", "invoices", "calendar"}

\* Where the credential POST may end after its redirects: a URL holding one
\* of the markers (named by the marker), the sign-in page again with the
\* text 'Invalid Email or password', or any other URL; or the POST raises a
\* RequestException and no URL is reached.
Landings == LandingMarkers \cup {"sign_in_invalid", "elsewhere", "exception"}

\* What the GET of the login page may give.
LoginPages == {"form", "not_200", "no_csrf", "exception"}

\* What the GET of one candidate URL of an order page may give.
PageAnswers == {"html", "empty", "rate_limited", "not_found", "exception"}

\* login, line 205: any(x in response.url for x in [...])
LoginSucceedsUnlessInvalid(l) == l # "sign_in_invalid"

LoginSucceeds(l) == l \in LandingMarkers

\* scrape_order, line 481: if order_id in self._completed_orders
AlreadyCompletedAtStart(id, done) == id \in done \cap LoadCompleted(scrFile)

AlreadyCompleted(id, done) == id \in done

\* scrape_order, lines 486-490: public_url, then the two constructed URLs.
UrlsToTry == 3

\* scrape_order, lines 500-503 and 510: the page was fetched.
GotHtml(a) == a = "html"

NoRecStats == [orders_processed |-> 0, orders_with_files |-> 0,
               files_downloaded |-> 0, files_failed |-> 0]

NoRec == [id |-> 0, fetched |-> FALSE, found |-> 0, downloaded |-> -1,
          manifest |-> FALSE]

RecordStart ==
    /\ orders \in OrderLists
    /\ nOrders = Len(orders)
    /\ scrPc = "call"
    /\ idx = 0
    /\ completed = {}
    /\ scrFile = NoScraperFile
    /\ worked = {}
    /\ scrErrors = 0
    /\ run = 1
    /\ exitCompleted = {}
    /\ interrupted = FALSE
    /\ loggedIn = FALSE
    /\ logins = 0
    /\ landing = "none"
    /\ pageGets = 0
    /\ urlTry = 0
    /\ rec = NoRec
    /\ manifests = {}
    /\ recStats = NoRecStats
    /\ lastResult = "none"

RecordUnused ==
    /\ orders = <<>>
    /\ loggedIn = FALSE
    /\ logins = 0
    /\ landing = "none"
    /\ pageGets = 0
    /\ urlTry = 0
    /\ rec = NoRec
    /\ manifests = {}
    /\ recStats = NoRecStats
    /\ lastResult = "none"

\* scrape_orders, lines 605-606: login() is called unless logged in.
CallScrapeOrders ==
    /\ scrPc = "call"
    /\ IF loggedIn
         THEN scrPc' = "loop" /\ logins' = logins
         ELSE scrPc' = "login_get" /\ logins' = logins + 1
    /\ UNCHANGED <<nOrders, idx, completed, scrFile, worked, scrErrors, run,
                   exitCompleted, interrupted>>
    /\ UNCHANGED <<orders, loggedIn, landing, pageGets, urlTry, rec, manifests,
                   recStats, lastResult>>
    /\ UNCHANGED outsideRecord

\* login, lines 177-189 and 217-219: the login page and its CSRF token;
\* without them login returns False and scrape_orders the error result.
LoginPage(p) ==
    /\ scrPc = "login_get"
    /\ scrPc' = IF p = "form" THEN "login_post" ELSE "login_failed"
    /\ UNCHANGED <<nOrders, idx, completed, scrFile, worked, scrErrors, run,
                   exitCompleted, interrupted>>
    /\ UNCHANGED <<orders, loggedIn, logins, landing, pageGets, urlTry, rec,
                   manifests, recStats, lastResult>>
    /\ UNCHANGED outsideRecord

\* login, lines 198-219, and scrape_orders, lines 606-609.
LoginPost(l) ==
    /\ scrPc = "login_post"
    /\ landing' = l
    /\ loggedIn' = LoginSucceeds(l)
    /\ scrPc' = IF LoginSucceeds(l) THEN "loop" ELSE "login_failed"
    /\ UNCHANGED <<nOrders, idx, completed, scrFile, worked, scrErrors, run,
                   exitCompleted, interrupted>>
    /\ UNCHANGED <<orders, logins, pageGets, urlTry, rec, manifests, recStats,
                   lastResult>>
    /\ UNCHANGED outsideRecord

\* scrape_orders, line 613, and scrape_order, lines 477-497: a completed
\* record is skipped at once; for any other the candidate URLs are tried,
\* the public URL first when the order has one.
BeginOrder(public) ==
    /\ scrPc = "loop"
    /\ LET id == orders[idx + 1]
       IN  IF AlreadyCompleted(id, completed)
             THEN /\ lastResult' = "skipped"
                  /\ scrPc' = "interval"
                  /\ UNCHANGED <<urlTry, rec, pageGets>>
             ELSE /\ lastResult' = "none"
                  /\ scrPc' = "page"
                  /\ urlTry' = IF public THEN 1 ELSE 2
                  /\ pageGets' = 0
                  /\ rec' = [NoRec EXCEPT !.id = id]
    /\ UNCHANGED <<nOrders, idx, completed, scrFile, worked, scrErrors, run,
                   exitCompleted, interrupted>>
    /\ UNCHANGED <<orders, loggedIn, logins, landing, manifests, recStats>>
    /\ UNCHANGED outsideRecord

\* scrape_order, lines 495-511: GET of the next candidate URL. The first
\* 200 answer with a body ends the loop; after the last URL without one the
\* order returns with status 'error'.
TryPage(a) ==
    /\ scrPc = "page"
    /\ pageGets' = pageGets + 1
    /\ IF GotHtml(a)
         THEN /\ rec' = [rec EXCEPT !.fetched = TRUE]
              /\ scrPc' = "extract"
              /\ UNCHANGED <<urlTry, lastResult>>
         ELSE IF urlTry < UrlsToTry
                THEN /\ urlTry' = urlTry + 1
                     /\ UNCHANGED <<rec, scrPc, lastResult>>
                ELSE /\ lastResult' = "error"
                     /\ scrPc' = "interval"
                     /\ UNCHANGED <<urlTry, rec>>
    /\ UNCHANGED <<nOrders, idx, completed, scrFile, worked, scrErrors, run,
                   exitCompleted, interrupted>>
    /\ UNCHANGED <<orders, loggedIn, logins, landing, manifests, recStats>>
    /\ UNCHANGED outsideRecord

\* scrape_order, lines 514-519: _extract_file_urls; a page without files
\* completes the record.
ExtractFiles(n) ==
    /\ scrPc = "extract"
    /\ rec' = [rec EXCEPT !.found = n]
    /\ IF n = 0
         THEN /\ recStats' = [recStats EXCEPT !.orders_processed = @ + 1]
              /\ completed' = completed \cup {rec.id}
              /\ lastResult' = "success"
              /\ scrPc' = "interval"
         ELSE /\ scrPc' = "download"
              /\ UNCHANGED <<recStats, completed, lastResult>>
    /\ UNCHANGED <<nOrders, idx, scrFile, worked, scrErrors, run,
                   exitCompleted, interrupted>>
    /\ UNCHANGED <<orders, loggedIn, logins, landing, pageGets, urlTry,
                   manifests>>
    /\ UNCHANGED outsideRecord

\* scrape_order, lines 536-546: _download_files_parallel returns the files
\* whose _download_file returned True, k of them; the manifest is written
\* only for a non-empty list.
DownloadFiles(k) ==
    /\ scrPc = "download"
    /\ k \in 0..rec.found
    /\ rec' = [rec EXCEPT !.downloaded = k]
    /\ recStats' = [recStats EXCEPT
                       !.files_downloaded = @ + k,
                       !.files_failed = @ + (rec.found - k),
                       !.orders_with_files = IF k > 0 THEN @ + 1 ELSE @]
    /\ scrPc' = IF k > 0 THEN "manifest" ELSE "mark"
    /\ UNCHANGED <<nOrders, idx, completed, scrFile, worked, scrErrors, run,
                   exitCompleted, interrupted>>
    /\ UNCHANGED <<orders, loggedIn, logins, landing, pageGets, urlTry,
                   manifests, lastResult>>
    /\ UNCHANGED outsideRecord

\* _save_order_manifest, lines 584-586.
SaveOrderManifest ==
    /\ scrPc = "manifest"
    /\ manifests' = manifests \cup {rec.id}
    /\ rec' = [rec EXCEPT !.manifest = TRUE]
    /\ scrPc' = "mark"
    /\ UNCHANGED <<nOrders, idx, completed, scrFile, worked, scrErrors, run,
                   exitCompleted, interrupted>>
    /\ UNCHANGED <<orders, loggedIn, logins, landing, pageGets, urlTry,
                   recStats, lastResult>>
    /\ UNCHANGED outsideRecord

\* scrape_order, lines 548-552.
MarkComplete ==
    /\ scrPc = "mark"
    /\ recStats' = [recStats EXCEPT !.orders_processed = @ + 1]
    /\ completed' = completed \cup {rec.id}
    /\ lastResult' = "success"
    /\ scrPc' = "interval"
    /\ UNCHANGED <<nOrders, idx, scrFile, worked, scrErrors, run,
                   exitCompleted, interrupted>>
    /\ UNCHANGED <<orders, loggedIn, logins, landing, pageGets, urlTry, rec,
                   manifests>>
    /\ UNCHANGED outsideRecord

\* The process stops while a record is worked on or between two records.
RecordCrash ==
    /\ scrPc \in {"loop", "page", "extract", "download", "manifest", "mark",
                  "interval", "final"}
    /\ scrPc' = "exited"
    /\ UNCHANGED <<nOrders, idx, completed, scrFile, worked, scrErrors, run,
                   exitCompleted, interrupted>>
    /\ UNCHANGED <<orders, loggedIn, logins, landing, pageGets, urlTry, rec,
                   manifests, recStats, lastResult>>
    /\ UNCHANGED outsideRecord

\* A later run over the same orders: PrintavoScraper.__init__ with the same
\* checkpoint file, then scrape_orders.
RecordRerun ==
    /\ scrPc \in {"exited", "returned", "login_failed"}
    /\ run < MaxRuns
    /\ run' = run + 1
    /\ completed' = LoadCompleted(scrFile)
    /\ idx' = 0
    /\ scrPc' = "call"
    /\ loggedIn' = FALSE
    /\ logins' = 0
    /\ landing' = "none"
    /\ pageGets' = 0
    /\ urlTry' = 0
    /\ rec' = NoRec
    /\ recStats' = NoRecStats
    /\ lastResult' = "none"
    /\ UNCHANGED <<nOrders, scrFile, worked, scrErrors, exitCompleted,
                   interrupted>>
    /\ UNCHANGED <<orders, manifests>>
    /\ UNCHANGED outsideRecord

NextRecord ==
    \/ CallScrapeOrders
    \/ \E p \in LoginPages : LoginPage(p)
    \/ \E l \in Landings : LoginPost(l)
    \/ \E public \in BOOLEAN : BeginOrder(public)
    \/ \E a \in PageAnswers : TryPage(a)
    \/ \E n \in 0..MaxFound : ExtractFiles(n)
    \/ \E k \in 0..MaxFound : DownloadFiles(k)
    \/ SaveOrderManifest
    \/ MarkComplete
    \/ IntervalCheckpoint
    \/ FinalCheckpoint
    \/ RecordCrash
    \/ RecordRerun

\* ======================================================================
\* PrintavoScraper._extract_file_urls
\* ======================================================================
PageUrl == "https://www.printavo.com/invoices/1"

\* The src and href values met on order pages: plain and relative file
\* URLs, a tracking pixel, resize variants of one CDN asset, the asset
\* itself, a transform URL naming its source in the query, an attachment.
RawUrls == {
    "https://www.printavo.com/uploads/mockup_final.png",
    "/uploads/mockup_final.png",
    "https://www.printavo.com/images/pixel.gif",
    "https://cdn.filestackcontent.com/resize=width:100/https://cdn.filepicker.io/AbC123",
    "https://cdn.filestackcontent.com/resize=width:200/https://cdn.filepicker.io/AbC123",
    "https://cdn.filepicker.io/AbC123",
    "https://cdn.filestackcontent.com/AbC123?resize=width:100&cache=https://cdn.filepicker.io/icon77",
    "https://www.printavo.com/attachments/12/design.dst" }

\* The elements of a page: tag, class of the enclosing block, src or href.
Elements == {
    [tag |-> "img", cls |-> "", url |-> "https://www.printavo.com/uploads/mockup_final.png"],
    [tag |-> "img", cls |-> "", url |-> "/uploads/mockup_final.png"],
    [tag |-> "img", cls |-> "", url |-> "https://www.printavo.com/images/pixel.gif"],
    [tag |-> "img", cls |-> "line-item-group", url |-> "https://www.printavo.com/images/pixel.gif"],
    [tag |-> "img", cls |-> "", url |-> "https://cdn.filestackcontent.com/resize=width:100/https://cdn.filepicker.io/AbC123"],
    [tag |-> "img", cls |-> "", url |-> "https://cdn.filestackcontent.com/resize=width:200/https://cdn.filepicker.io/AbC123"],
    [tag |-> "a", cls |-> "", url |-> "https://cdn.filepicker.io/AbC123"],
    [tag |-> "img", cls |-> "imprint-image", url |-> "https://cdn.filepicker.io/AbC123"],
    [tag |-> "img", cls |-> "", url |-> "https://cdn.filestackcontent.com/AbC123?resize=width:100&cache=https://cdn.filepicker.io/icon77"],
    [tag |-> "a", cls |-> "", url |-> "https://www.printavo.com/attachments/12/design.dst"] }

Pages == UNION {[1..n -> Elements] : n \in 0..MaxElements}

\* The substrings the selectors look for, as contained in an attribute value.
Keywords(u) ==
    CASE u \in {"https://www.printavo.com/uploads/mockup_final.png",
                "/uploads/mockup_final.png"} -> {"mockup"}
      [] u \in {"https://cdn.filestackcontent.com/resize=width:100/https://cdn.filepicker.io/AbC123",
                "https://cdn.filestackcontent.com/resize=width:200/https://cdn.filepicker.io/AbC123",
                "https://cdn.filestackcontent.com/AbC123?resize=width:100&cache=https://cdn.filepicker.io/icon77"}
            -> {"filestackcontent.com", "filepicker.io", "cdn.filepicker.io"}
      [] u = "https://cdn.filepicker.io/AbC123" -> {"filepicker.io", "cdn.filepicker.io"}
      [] u = "https://www.printavo.com/attachments/12/design.dst" -> {"/attachments/", ".dst"}
      [] OTHER -> {}

\* _extract_file_urls, lines 237-257: the selectors in order, each with its
\* source type.
Selectors == <<
    [tag |-> "img", kw |-> "mockup", cls |-> "", source |-> "mockup"],
    [tag |-> "img", kw |-> "proof", cls |-> "", source |-> "proof"],
    [tag |-> "img", kw |-> "artwork", cls |-> "", source |-> "artwork"],
    [tag |-> "img", kw |-> "filestackcontent.com", cls |-> "", source |-> "artwork"],
    [tag |-> "a", kw |-> "filestackcontent.com", cls |-> "", source |-> "file"],
    [tag |-> "img", kw |-> "filepicker.io", cls |-> "", source |-> "artwork"],
    [tag |-> "a", kw |-> "filepicker.io", cls |-> "", source |-> "file"],
    [tag |-> "img", kw |-> "cdn.filepicker.io", cls |-> "", source |-> "artwork"],
    [tag |-> "a", kw |-> "cdn.filepicker.io", cls |-> "", source |-> "file"],
    [tag |-> "img", kw |-> "s3.amazonaws", cls |-> "", source |-> "artwork"],
    [tag |-> "a", kw |-> "s3.amazonaws", cls |-> "", source |-> "file"],
    [tag |-> "img", kw |-> "", cls |-> "line-item-group", source |-> "lineitem"],
    [tag |-> "img", kw |-> "", cls |-> "imprint-image", source |-> "imprint"],
    [tag |-> "a", kw |-> "/attachments/", cls |-> "", source |-> "attachment"],
    [tag |-> "a", kw |-> ".dst", cls |-> "", source |-> "embroidery"],
    [tag |-> "a", kw |-> ".pes", cls |-> "", source |-> "embroidery"],
    [tag |-> "a", kw |-> ".eps", cls |-> "", source |-> "vector"],
    [tag |-> "a", kw |-> ".ai", cls |-> "", source |-> "vector"],
    [tag |-> "a", kw |-> ".pdf", cls |-> "", source |-> "document"] >>

\* soup.select(selector) on one element.
Matches(sel, e) ==
    /\ e.tag = sel.tag
    /\ sel.kw # "" => sel.kw \in Keywords(e.url)
    /\ sel.cls # "" => e.cls = sel.cls

\* urljoin(page_url, url)
UrlJoin(base, u) ==
    IF u = "/uploads/mockup_final.png"
      THEN "https://www.printavo.com/uploads/mockup_final.png"
      ELSE u

\* Lines 274-282: a skip pattern occurs in the lower-cased path of the URL.
NoisePath(u) ==
    u \in {"https://www.printavo.com/images/pixel.gif",
           "https://cdn.filepicker.io/icon77"}

\* FileDetector.detect_from_url: the FileType of the extension of the path.
DetectFromUrl(u) ==
    CASE u = "https://www.printavo.com/uploads/mockup_final.png" -> "artwork"
      [] u = "https://www.printavo.com/images/pixel.gif" -> "artwork"
      [] u = "https://www.printavo.com/attachments/12/design.dst" -> "embroidery"
      [] OTHER -> "unknown"

\* Lines 288-293: the URL names one of the known CDN hosts.
IsCdn(u) == Keywords(u) \cap {"filestackcontent.com", "filepicker.io",
                              "s3.amazonaws", "cdn.filepicker.io"} # {}

\* Lines 299-302: a filestack URL with 'resize=' gives way to the first
\* https://cdn.filepicker.io/<handle> found in it.
OriginalUrl(u) ==
    CASE u \in {"https://cdn.filestackcontent.com/resize=width:100/https://cdn.filepicker.io/AbC123",
                "https://cdn.filestackcontent.com/resize=width:200/https://cdn.filepicker.io/AbC123"}
            -> "https://cdn.filepicker.io/AbC123"
      [] u = "https://cdn.filestackcontent.com/AbC123?resize=width:100&cache=https://cdn.filepicker.io/icon77"
            -> "https://cdn.filepicker.io/icon77"
      [] OTHER -> u

\* Lines 270-271: if url in seen_urls
IsDuplicate(u, seen) == u \in seen

\* Lines 281-282 and 295-296: the URL is skipped as noise or as a file of
\* unknown type away from the CDNs.
Skips(u) == NoisePath(u) \/ (DetectFromUrl(u) = "unknown" /\ ~IsCdn(u))

\* Lines 261-318 for one element under one selector: the state <<files,
\* seen_urls>> after it.
VisitElement(st, sel, e) ==
    LET u == UrlJoin(PageUrl, e.url)
    IN  IF ~Matches(sel, e) \/ IsDuplicate(u, st[2]) \/ Skips(u)
          THEN st
          ELSE << Append(st[1], [url |-> OriginalUrl(u),
                                 index |-> Len(st[1]),
                                 file_type |-> DetectFromUrl(u),
                                 source_type |-> sel.source]),
                  st[2] \cup {OriginalUrl(u)} >>

\* Lines 260-318: the elements of the page under one selector, in order.
RECURSIVE VisitElements(_, _, _, _)
VisitElements(st, sel, pg, i) ==
    IF i > Len(pg) THEN st
    ELSE VisitElements(VisitElement(st, sel, pg[i]), sel, pg, i + 1)

ExtractStart ==
    /\ exPage \in Pages
    /\ exSel = 1
    /\ exFiles = <<>>
    /\ exSeen = {}
    /\ exPc = "select"

ExtractUnused ==
    /\ exPage = <<>>
    /\ exSel = 1
    /\ exFiles = <<>>
    /\ exSeen = {}
    /\ exPc = "unused"

\* One round of the loop over the selectors.
SelectNext ==
    /\ exPc = "select"
    /\ exSel <= Len(Selectors)
    /\ LET st == VisitElements(<<exFiles, exSeen>>, Selectors[exSel], exPage, 1)
       IN  exFiles' = st[1] /\ exSeen' = st[2]
    /\ exSel' = exSel + 1
    /\ UNCHANGED <<exPage, exPc>>
    /\ UNCHANGED outsideExtract

\* Line 320: return files
ReturnFiles ==
    /\ exPc = "select"
    /\ exSel > Len(Selectors)
    /\ exPc' = "returned"
    /\ UNCHANGED <<exPage, exSel, exFiles, exSeen>>
    /\ UNCHANGED outsideExtract

NextExtract ==
    \/ SelectNext
    \/ ReturnFiles

\* ======================================================================
\* MinIOUploader: sync_directory, upload_export, upload_artwork_directory
\* and the orchestrator's sync_to_minio
\* ======================================================================
\* The local files of the directory given to sync_directory, of the one
\* export directory and of the artwork tree; a file's object name is fixed
\* by its place (_get_object_path of the prefix and the relative path).
SyncObjects == {<<"sync", i>> : i \in 1..MaxSyncFiles}
ExportObjects == {<<"exports", i>> : i \in 1..MaxExportFiles}
ArtworkObjects == {<<"artwork", i>> : i \in 1..MaxArtworkFiles}

\* upload_index is called for the orders, customers and artwork index.
IndexUploads == 3

\* The files a loop walks, in order.
FileList(kind) ==
    CASE kind = "sync" -> [i \in 1..MaxSyncFiles |-> <<"sync", i>>]
      [] kind = "exports" -> [i \in 1..MaxExportFiles |-> <<"exports", i>>]
      [] kind = "artwork" -> [i \in 1..MaxArtworkFiles |-> <<"artwork", i>>]
      [] OTHER -> [i \in 1..IndexUploads |-> <<"index", i>>]

\* What client.stat_object may do: return, or raise an S3Error, NoSuchKey
\* for an object that is not there, any other code (AccessDenied, SlowDown)
\* for any object.
StatAnswers == {"found", "NoSuchKey", "S3Error"}

NoUploadStats == [files_uploaded |-> 0, files_skipped |-> 0, files_failed |-> 0]

NoUpRet == [op |-> "none", status |-> "none", uploaded |-> 0, skipped |-> 0,
            full |-> FALSE, stats |-> NoUploadStats]

\* sync_directory, lines 557-563: the object is taken to exist when
\* stat_object returns, and to be missing on any S3Error.
TakenToExist(a) == a = "found"

UploadStart ==
    /\ upPc = "idle"
    /\ upOp = "none"
    /\ upKind = "none"
    /\ upI = 0
    /\ upConnected = FALSE
    /\ upStats = NoUploadStats
    /\ upErrors = <<>>
    /\ upLocal = [uploaded |-> 0, skipped |-> 0]
    /\ upCalls = 0
    /\ upOver = {}
    /\ upFull = FALSE
    /\ upRet = NoUpRet

UploadUnused ==
    /\ bucket = {}
    /\ UploadStart

\* The result a call returns with.
Returned(status, uploaded, skipped, stats) ==
    [op |-> upOp, status |-> status, uploaded |-> uploaded, skipped |-> skipped,
     full |-> upFull, stats |-> stats]

\* sync_directory, lines 542-550, called on the uploader at hand.
CallSyncDirectory ==
    /\ upPc = "idle"
    /\ upCalls < MaxUploadCalls
    /\ upCalls' = upCalls + 1
    /\ upOp' = "sync"
    /\ upKind' = "sync"
    /\ upI' = 1
    /\ upLocal' = [uploaded |-> 0, skipped |-> 0]
    /\ upFull' = (SyncObjects \subseteq bucket)
    /\ upOver' = {}
    /\ upPc' = IF upConnected THEN "stat" ELSE "connect"
    /\ UNCHANGED <<bucket, upConnected, upStats, upErrors, upRet>>
    /\ UNCHANGED outsideUpload

\* sync_to_minio, lines 398-407: a new MinIOUploader, then connect().
CallSyncToMinio ==
    /\ upPc = "idle"
    /\ upCalls < MaxUploadCalls
    /\ upCalls' = upCalls + 1
    /\ upOp' = "archive"
    /\ upKind' = "exports"
    /\ upI' = 1
    /\ upLocal' = [uploaded |-> 0, skipped |-> 0]
    /\ upFull' = ((ExportObjects \cup ArtworkObjects) \subseteq bucket)
    /\ upOver' = {}
    /\ upConnected' = FALSE
    /\ upStats' = NoUploadStats
    /\ upErrors' = <<>>
    /\ upPc' = "connect"
    /\ UNCHANGED <<bucket, upRet>>
    /\ UNCHANGED outsideUpload

\* connect, lines 109-126; without a connection the call returns an error.
Connect(ok) ==
    /\ upPc = "connect"
    /\ upConnected' = ok
    /\ IF ok
         THEN /\ upPc' = IF upOp = "sync" THEN "stat" ELSE "put"
              /\ UNCHANGED <<upErrors, upRet>>
         ELSE /\ upErrors' = Append(upErrors, [path |-> <<"none", 0>>,
                                               text |-> "connection error"])
              /\ upRet' = Returned("error", 0, 0, upStats)
              /\ upPc' = "idle"
    /\ UNCHANGED <<bucket, upOp, upKind, upI, upStats, upLocal, upCalls, upOver,
                   upFull>>
    /\ UNCHANGED outsideUpload

\* The loop moves to the next file; after the last one the next stage of
\* the call begins or the call returns.
Advance(local, stats) ==
    IF upI < Len(FileList(upKind))
      THEN /\ upI' = upI + 1
           /\ upPc' = IF upOp = "sync" THEN "stat" ELSE "put"
           /\ UNCHANGED <<upKind, upRet>>
      ELSE IF upOp = "archive" /\ upKind # "index"
        THEN /\ upI' = 1
             /\ upKind' = IF upKind = "exports" THEN "artwork" ELSE "index"
             /\ upPc' = "put"
             /\ UNCHANGED upRet
        ELSE /\ upPc' = "idle"
             /\ upRet' = Returned("success", local.uploaded, local.skipped, stats)
             /\ UNCHANGED <<upI, upKind>>

\* sync_directory, lines 556-563: the existence check.
StatObject(a) ==
    /\ upPc = "stat"
    /\ LET obj == FileList(upKind)[upI]
       IN  /\ a = "found" => obj \in bucket
           /\ a = "NoSuchKey" => obj \notin bucket
           /\ IF TakenToExist(a)
                THEN /\ upLocal' = [upLocal EXCEPT !.skipped = @ + 1]
                     /\ upStats' = [upStats EXCEPT !.files_skipped = @ + 1]
                     /\ Advance(upLocal', upStats')
                ELSE /\ upPc' = "put"
                     /\ UNCHANGED <<upLocal, upStats, upI, upKind, upRet>>
    /\ UNCHANGED <<bucket, upOp, upConnected, upErrors, upCalls, upOver, upFull>>
    /\ UNCHANGED outsideUpload

\* client.fput_object and what follows it: sync_directory, lines 565-579,
\* upload_export, lines 167-186, upload_artwork_directory, lines 242-256,
\* upload_index, lines 348-363 (which counts nothing).
FPutObject(ok) ==
    /\ upPc = "put"
    /\ LET obj == FileList(upKind)[upI]
       IN  IF ok
             THEN /\ bucket' = bucket \cup {obj}
                  /\ upOver' = IF obj \in bucket THEN upOver \cup {obj} ELSE upOver
                  /\ upErrors' = upErrors
                  /\ IF upKind = "index"
                       THEN UNCHANGED <<upStats, upLocal>>
                       ELSE /\ upStats' = [upStats EXCEPT !.files_uploaded = @ + 1]
                            /\ upLocal' = [upLocal EXCEPT !.uploaded = @ + 1]
             ELSE /\ upErrors' = Append(upErrors, [path |-> obj, text |-> "S3Error"])
                  /\ upStats' = IF upKind = "index" THEN upStats
                                ELSE [upStats EXCEPT !.files_failed = @ + 1]
                  /\ UNCHANGED <<bucket, upOver, upLocal>>
    /\ Advance(upLocal', upStats')
    /\ UNCHANGED <<upOp, upConnected, upCalls, upFull>>
    /\ UNCHANGED outsideUpload

\* Calls of sync_directory on one uploader.
NextSync ==
    \/ CallSyncDirectory
    \/ \E ok \in BOOLEAN : Connect(ok)
    \/ \E a \in StatAnswers : StatObject(a)
    \/ \E ok \in BOOLEAN : FPutObject(ok)

\* Archival passes of the orchestrator.
NextArchive ==
    \/ CallSyncToMinio
    \/ \E ok \in BOOLEAN : Connect(ok)
    \/ \E ok \in BOOLEAN : FPutObject(ok)

\* ======================================================================
\* FileDetector: categorize_extension, get_priority, validate_file
\* ======================================================================
\* Strings whose characters the code looks at are sequences of characters.
LowerCase == <<"a", "b", "c", "d", "e", "f", "g", "h", "i", "j", "k", "l", "m",
               "n", "o", "p", "q", "r", "s", "t", "u", "v", "w", "x", "y", "z">>
UpperCase == <<"A", "B", "C", "D", "E", "F", "G", "H", "I", "J", "K", "L", "M",
               "N", "O", "P", "Q", "R", "S", "T", "U", "V", "W", "X", "Y", "Z">>

\* str.lower with no effect on upper-case letters.
lowerKeepsCase(s) == s

\* str.lower
lower(s) ==
    [i \in DOMAIN s |->
        IF \E k \in DOMAIN UpperCase : UpperCase[k] = s[i]
          THEN LowerCase[CHOOSE k \in DOMAIN UpperCase : UpperCase[k] = s[i]]
          ELSE s[i]]

\* str.upper
upper(s) ==
    [i \in DOMAIN s |->
        IF \E k \in DOMAIN LowerCase : LowerCase[k] = s[i]
          THEN UpperCase[CHOOSE k \in DOMAIN LowerCase : LowerCase[k] = s[i]]
          ELSE s[i]]

\* The entries of the EXTENSION_MAP dict literal, in the order written.
ExtensionEntries ==
    << << <<".", "p", "n", "g">>, "artwork" >>,
       << <<".", "j", "p", "g">>, "artwork" >>,
       << <<".", "j", "p", "e", "g">>, "artwork" >>,
       << <<".", "g", "i", "f">>, "artwork" >>,
       << <<".", "b", "m", "p">>, "artwork" >>,
       << <<".", "t", "i", "f", "f">>, "artwork" >>,
       << <<".", "t", "i", "f">>, "artwork" >>,
       << <<".", "w", "e", "b", "p">>, "artwork" >>,
       << <<".", "a", "i">>, "vector" >>,
       << <<".", "e", "p", "s">>, "vector" >>,
       << <<".", "s", "v", "g">>, "vector" >>,
       << <<".", "c", "d", "r">>, "vector" >>,
       << <<".", "p", "d", "f">>, "document" >>,
       << <<".", "d", "s", "t">>, "embroidery" >>,
       << <<".", "p", "e", "s">>, "embroidery" >>,
       << <<".", "e", "x", "p">>, "embroidery" >>,
       << <<".", "j", "e", "f">>, "embroidery" >>,
       << <<".", "v", "p", "3">>, "embroidery" >>,
       << <<".", "h", "u", "s">>, "embroidery" >>,
       << <<".", "x", "x", "x">>, "embroidery" >>,
       << <<".", "s", "e", "w">>, "embroidery" >>,
       << <<".", "s", "h", "v">>, "embroidery" >>,
       << <<".", "p", "c", "s">>, "embroidery" >>,
       << <<".", "p", "s", "d">>, "source" >>,
       << <<".", "i", "n", "d", "d">>, "source" >>,
       << <<".", "i", "d", "m", "l">>, "source" >>,
       << <<".", "a", "i">>, "source" >>,
       << <<".", "a", "f", "d", "e", "s", "i", "g", "n">>, "source" >>,
       << <<".", "a", "f", "p", "h", "o", "t", "o">>, "source" >>
    >>

\* EXTENSION_MAP.get(ext, FileType.UNKNOWN): of two entries with one key the
\* dict keeps the later one.
EXTENSION_MAP(ext) ==
    LET hits == {i \in DOMAIN ExtensionEntries : ExtensionEntries[i][1] = ext}
    IN  IF hits = {} THEN "unknown"
        ELSE ExtensionEntries[CHOOSE i \in hits : \A j \in hits : j <= i][2]

\* FileDetector.categorize_extension
categorize_extension(ext) ==
    IF ext = <<>> THEN "unknown"
    ELSE LET dotted == IF Head(ext) = "." THEN ext ELSE <<".">> \o ext
         IN  EXTENSION_MAP(lower(dotted))

\* FileDetector.PRIORITY
PRIORITY ==
    [t \in FileTypes |->
        CASE t = "embroidery" -> 5
          [] t = "vector" -> 4
          [] t = "document" -> 3
          [] t = "artwork" -> 2
          [] t = "source" -> 3
          [] t = "unknown" -> 0]

\* FileDetector.get_priority
get_priority(file_type) ==
    IF file_type \in DOMAIN PRIORITY THEN PRIORITY[file_type] ELSE 0

\* The leading bytes of a file: the signature they begin with, its length in
\* bytes and what detect_from_content makes of it. "dst" stands for a header
\* holding the label marker LA:, "none" for bytes that match nothing.
Signatures ==
    { [sig |-> "png", len |-> 8, ext |-> <<".", "p", "n", "g">>],
      [sig |-> "jpg", len |-> 3, ext |-> <<".", "j", "p", "g">>],
      [sig |-> "gif", len |-> 6, ext |-> <<".", "g", "i", "f">>],
      [sig |-> "pdf", len |-> 4, ext |-> <<".", "p", "d", "f">>],
      [sig |-> "eps", len |-> 4, ext |-> <<".", "e", "p", "s">>],
      [sig |-> "riff", len |-> 4, ext |-> <<".", "w", "e", "b", "p">>],
      [sig |-> "zip", len |-> 4, ext |-> <<".", "z", "i", "p">>],
      [sig |-> "dst", len |-> 512, ext |-> <<".", "d", "s", "t">>],
      [sig |-> "pes", len |-> 4, ext |-> <<".", "p", "e", "s">>],
      [sig |-> "exp", len |-> 1, ext |-> <<".", "e", "x", "p">>],
      [sig |-> "none", len |-> 0, ext |-> <<>>] }

\* FileDetector.detect_from_content on the bytes read: data shorter than 4
\* bytes is unknown, then the magic bytes, then the embroidery headers.
detect_from_content(size, s) ==
    IF size < 4 \/ s.sig = "none" THEN "unknown"
    ELSE IF s.sig \in {"dst", "pes", "exp"} THEN "embroidery"
    ELSE EXTENSION_MAP(s.ext)

\* FileDetector.detect_from_file: the suffix of the path in lower case when
\* EXTENSION_MAP has it, else the first 512 bytes.
detect_from_file(f) ==
    IF ~f.exists THEN "unknown"
    ELSE IF EXTENSION_MAP(lower(f.suffix)) # "unknown"
           THEN EXTENSION_MAP(lower(f.suffix))
    ELSE detect_from_content(f.size, f.head)

\* FileDetector.validate_file(filepath, expected_type): the message returned;
\* the file is valid exactly when the message is "OK". expected_type "None"
\* is the default argument; every FileType member is truthy.
validate_file(f, expected_type) ==
    IF ~f.exists THEN "File does not exist"
    ELSE IF f.size = 0 THEN "File is empty"
    ELSE IF f.size < MIN_FILE_SIZE THEN "File is too small to be valid"
    ELSE IF /\ expected_type # "None"
            /\ detect_from_file(f) # "unknown"
            /\ detect_from_file(f) # expected_type
           THEN "File type mismatch"
    ELSE "OK"

\* The extensions categorize_extension is called for: the names of the
\* table without their dot, and two names the table lacks.
ExtensionNames ==
    {Tail(ExtensionEntries[i][1]) : i \in DOMAIN ExtensionEntries}
        \cup {<<"z", "i", "p">>, <<>>}

\* The three spellings of an extension name.
Spelling(e, v) ==
    CASE v = "bare" -> e
      [] v = "dotted" -> <<".">> \o e
      [] v = "upper" -> upper(<<".">> \o e)

\* The files validate_file is called for: any size up to MaxFileBytes or a
\* full 512-byte header, a suffix, and leading bytes that fit in the file.
FilesToValidate ==
    {f \in [exists : BOOLEAN,
            size : 0..MaxFileBytes \cup {DST_HEADER},
            suffix : {<<".", "p", "n", "g">>, <<".", "P", "D", "F">>,
                      <<".", "b", "i", "n">>, <<>>},
            head : Signatures] :
        /\ f.head.len <= f.size
        /\ ~f.exists => (f.size = 0 /\ f.head.sig = "none")}

NoCategories == [v \in {"bare", "dotted", "upper"} |-> "none"]
NoPriorities == [t \in FileTypes |-> -1]
NoValidation ==
    [file |-> [exists |-> FALSE, size |-> 0, suffix |-> <<>>,
               head |-> [sig |-> "none", len |-> 0, ext |-> <<>>]],
     expected |-> "None", message |-> "none"]

DetectorUnused ==
    /\ fdOp = "none"
    /\ fdExt = <<>>
    /\ fdCat = NoCategories
    /\ fdPrio = NoPriorities
    /\ fdVal = NoValidation

DetectorStart ==
    /\ fdOp \in {"categorize", "priority", "validate"}
    /\ fdExt \in (IF fdOp = "categorize" THEN ExtensionNames ELSE {<<>>})
    /\ fdCat = NoCategories
    /\ fdPrio = NoPriorities
    /\ fdVal \in (IF fdOp = "validate"
                    THEN [file : FilesToValidate,
                          expected : FileTypes \cup {"None"},
                          message : {"none"}]
                    ELSE {NoValidation})

\* One call of categorize_extension with one spelling of the extension.
CategorizeExtension(v) ==
    /\ fdOp = "categorize"
    /\ fdCat' = [fdCat EXCEPT ![v] = categorize_extension(Spelling(fdExt, v))]
    /\ UNCHANGED <<fdOp, fdExt, fdPrio, fdVal>>
    /\ UNCHANGED outsideDetector

\* One call of get_priority.
GetPriority(t) ==
    /\ fdOp = "priority"
    /\ fdPrio' = [fdPrio EXCEPT ![t] = get_priority(t)]
    /\ UNCHANGED <<fdOp, fdExt, fdCat, fdVal>>
    /\ UNCHANGED outsideDetector

\* The call of validate_file.
CallValidateFile ==
    /\ fdOp = "validate"
    /\ fdVal' = [fdVal EXCEPT !.message = validate_file(fdVal.file, fdVal.expected)]
    /\ UNCHANGED <<fdOp, fdExt, fdCat, fdPrio>>
    /\ UNCHANGED outsideDetector

NextDetector ==
    \/ \E v \in DOMAIN NoCategories : CategorizeExtension(v)
    \/ \E t \in FileTypes : GetPriority(t)
    \/ CallValidateFile

\* ======================================================================
\* PrintavoAPI.request and stats.errors
\* ======================================================================
\* The answers caught by 'except requests.exceptions.RequestException',
\* the only place that appends to self.stats.errors (lines 148-150).
AppendsError(o) == o \in {"error", "badjson"}

RequestUnused ==
    /\ rqPc = "idle"
    /\ rqAttempt = 0
    /\ rqAnswers = <<>>
    /\ rqErrors = 0
    /\ rqErrors0 = 0
    /\ rqRet = "none"
    /\ rqCalls = 0

\* request() is called: lines 124-133.
CallRequest ==
    /\ rqPc \in {"idle", "returned"}
    /\ rqCalls < MaxRequests
    /\ rqCalls' = rqCalls + 1
    /\ rqPc' = "attempt"
    /\ rqAttempt' = 0
    /\ rqAnswers' = <<>>
    /\ rqErrors0' = rqErrors
    /\ UNCHANGED <<rqErrors, rqRet>>
    /\ UNCHANGED outsideRequest

\* One pass of the retry loop, lines 134-156: the attempt is sent and the
\* server answers with o.
RequestAttempt(o) ==
    /\ rqPc = "attempt"
    /\ rqAnswers' = Append(rqAnswers, o)
    /\ rqErrors' = IF AppendsError(o) THEN rqErrors + 1 ELSE rqErrors
    /\ IF ReturnsAfter(o, rqAttempt)
         THEN /\ rqPc' = "returned"
              /\ rqRet' = IF o = "ok" THEN "json" ELSE "none"
              /\ rqAttempt' = rqAttempt
         ELSE /\ rqPc' = "attempt"
              /\ rqRet' = rqRet
              /\ rqAttempt' = rqAttempt + 1
    /\ UNCHANGED <<rqErrors0, rqCalls>>
    /\ UNCHANGED outsideRequest

NextRequest ==
    \/ CallRequest
    \/ \E o \in Outcomes : RequestAttempt(o)

\* ======================================================================
\* sync-artwork-minio-v2: main and upload_order
\* ======================================================================
\* The checkpoint file: absent, a JSON document, or not decodable.
ArtFiles ==
    {[state |-> "absent", uploaded |-> {}], [state |-> "corrupt", uploaded |-> {}]}
        \cup [state : {"ok"}, uploaded : SUBSET (1..MaxArtOrders)]

\* load_checkpoint()["uploaded_orders"]: the file's list, or [] of the fresh
\* dict when the file is absent or cannot be decoded.
load_checkpoint(f) == IF f.state = "ok" THEN f.uploaded ELSE {}

\* pending = [o for o in all_orders if o['order_id'] not in uploaded_set],
\* all_orders being sorted by folder name.
RECURSIVE Pending(_, _, _)
Pending(all, uploaded, from) ==
    IF from > MaxArtOrders THEN <<>>
    ELSE (IF from \in all \ uploaded THEN <<from>> ELSE <<>>)
             \o Pending(all, uploaded, from + 1)

MainUnused ==
    /\ avPc = "start"
    /\ avShutdown = FALSE
    /\ avLocal = "unbound"
    /\ avOrders = {}
    /\ avFile = [state |-> "absent", uploaded |-> {}]
    /\ avCheckpoint = {}
    /\ avPending = <<>>
    /\ avI = 0
    /\ avStarted = <<>>
    /\ avSaved = FALSE
    /\ avRaised = "none"

\* The process is started: the module is loaded (shutdown_requested = False,
\* the handlers installed) and main is entered. main assigns to the name
\* shutdown_requested (line 312) and declares it nowhere global, so inside
\* main the name is a local variable, unbound until line 312 runs.
MainStart ==
    /\ avPc = "start"
    /\ avShutdown = FALSE
    /\ avLocal = "unbound"
    /\ avOrders \in SUBSET (1..MaxArtOrders)
    /\ avFile \in ArtFiles
    /\ avCheckpoint = {}
    /\ avPending = <<>>
    /\ avI = 0
    /\ avStarted = <<>>
    /\ avSaved = FALSE
    /\ avRaised = "none"

\* signal_handler: SIGINT or SIGTERM is delivered.
SignalHandler ==
    /\ avPc \in {"start", "loop", "upload", "finally"}
    /\ ~avShutdown
    /\ avShutdown' = TRUE
    /\ UNCHANGED <<avPc, avLocal, avOrders, avFile, avCheckpoint, avPending,
                   avI, avStarted, avSaved, avRaised>>
    /\ UNCHANGED outsideMain

\* main, lines 205-281: the connection and the bucket are checked (ok: both
\* answer), the folders are scanned, the checkpoint is loaded and the pending
\* orders are listed. sys.exit(1) without a connection, a bucket or a folder;
\* return when nothing is pending.
Startup(ok) ==
    /\ avPc = "start"
    /\ avCheckpoint' = load_checkpoint(avFile)
    /\ IF ~ok \/ avOrders = {}
         THEN /\ avPc' = "exited"
              /\ avRaised' = "SystemExit"
              /\ avPending' = <<>>
         ELSE /\ avPending' = Pending(avOrders, load_checkpoint(avFile), 1)
              /\ avPc' = IF avPending' = <<>> THEN "exited" ELSE "loop"
              /\ avRaised' = "none"
    /\ avI' = 1
    /\ UNCHANGED <<avShutdown, avLocal, avOrders, avFile, avStarted, avSaved>>
    /\ UNCHANGED outsideMain

\* main, lines 286-289: the for loop takes the next pending order, line 287
\* reads shutdown_requested, and upload_order is called. Reading the unbound
\* local name raises UnboundLocalError, which 'except KeyboardInterrupt' does
\* not catch.
LoopTest ==
    /\ avPc = "loop"
    /\ IF avI > Len(avPending)
         THEN /\ avPc' = "finally"
              /\ UNCHANGED <<avStarted, avRaised>>
         ELSE IF avLocal = "unbound"
         THEN /\ avPc' = "finally"
              /\ avRaised' = "UnboundLocalError"
              /\ UNCHANGED avStarted
         ELSE IF avLocal = "true"
         THEN /\ avPc' = "finally"
              /\ UNCHANGED <<avStarted, avRaised>>
         ELSE /\ avPc' = "upload"
              /\ avStarted' = Append(avStarted, avPending[avI])
              /\ UNCHANGED avRaised
    /\ UNCHANGED <<avShutdown, avLocal, avOrders, avFile, avCheckpoint,
                   avPending, avI, avSaved>>
    /\ UNCHANGED outsideMain

\* main, lines 313-331: the finally block saves the checkpoint dict and
\* prints the summary; then main returns or the exception ends the process.
Finally ==
    /\ avPc = "finally"
    /\ avFile' = [state |-> "ok", uploaded |-> avCheckpoint]
    /\ avSaved' = TRUE
    /\ avPc' = "exited"
    /\ UNCHANGED <<avShutdown, avLocal, avOrders, avCheckpoint, avPending, avI,
                   avStarted, avRaised>>
    /\ UNCHANGED outsideMain

NextMain ==
    \/ SignalHandler
    \/ \E ok \in BOOLEAN : Startup(ok)
    \/ LoopTest
    \/ Finally

\* What one fput_object call may end in: the object is stored, S3Error, an
\* exception whose text holds "connection" or "timeout", another exception.
PutOutcomes == {"ok", "s3error", "connection", "other"}

OrderUnused ==
    /\ uoPc = "idle"
    /\ uoN = 0
    /\ uoF = 0
    /\ uoAttempt = 0
    /\ uoStored = {}
    /\ uoCount = 0
    /\ uoAnswers = <<>>
    /\ uoRet = "none"

\* An order folder of up to MaxOrderFiles files and an empty prefix for it in
\* the bucket.
OrderStart ==
    /\ uoPc = "idle"
    /\ uoN \in 0..MaxOrderFiles
    /\ uoF = 0
    /\ uoAttempt = 0
    /\ uoStored = {}
    /\ uoCount = 0
    /\ uoAnswers = <<>>
    /\ uoRet = "none"

\* The for loop over the files moves on from file f: the next file's first
\* attempt, or 'return True, ...' (line 199) after the last file.
NextFile(f) ==
    IF f < uoN
      THEN uoPc' = "put" /\ uoF' = f + 1 /\ uoAttempt' = 0 /\ uoRet' = "none"
      ELSE uoPc' = "returned" /\ uoF' = f /\ uoAttempt' = uoAttempt /\ uoRet' = "true"

\* 'return False, ...'
ReturnFalse ==
    uoPc' = "returned" /\ uoF' = uoF /\ uoAttempt' = uoAttempt /\ uoRet' = "false"

\* upload_order is called: lines 160-166.
CallUploadOrder ==
    /\ uoPc = "idle"
    /\ NextFile(0)
    /\ UNCHANGED <<uoN, uoStored, uoCount, uoAnswers>>
    /\ UNCHANGED outsideOrder

\* One pass of the retry loop, lines 174-197: fput_object ends in o.
PutAttempt(o) ==
    /\ uoPc = "put"
    /\ uoAnswers' = Append(uoAnswers, o)
    /\ CASE o = "ok" ->
              /\ uoStored' = uoStored \cup {uoF}
              /\ uoCount' = uoCount + 1
              /\ NextFile(uoF)
         [] o = "s3error" ->
              /\ UNCHANGED <<uoStored, uoCount>>
              /\ IF uoAttempt < max_retries - 1
                   THEN uoPc' = "put" /\ uoF' = uoF /\ uoAttempt' = uoAttempt + 1
                        /\ uoRet' = "none"
                   ELSE ReturnFalse
         [] o = "connection" ->
              /\ UNCHANGED <<uoStored, uoCount>>
              /\ IF uoAttempt + 1 < max_retries
                   THEN uoPc' = "put" /\ uoF' = uoF /\ uoAttempt' = uoAttempt + 1
                        /\ uoRet' = "none"
                   ELSE NextFile(uoF)
         [] o = "other" ->
              /\ UNCHANGED <<uoStored, uoCount>>
              /\ ReturnFalse
    /\ UNCHANGED uoN
    /\ UNCHANGED outsideOrder

NextOrder ==
    \/ CallUploadOrder
    \/ \E o \in PutOutcomes : PutAttempt(o)

\* ======================================================================
\* _extract_file_urls: the filenames
\* ======================================================================
\* The ext FileDetector.detect_from_url returns for a URL: the lower-cased
\* suffix of its path ("": none; a CDN handle has none and these URLs carry
\* no filename= parameter).
UrlExt(u) ==
    CASE u = "https://www.printavo.com/uploads/mockup_final.png" -> ".png"
      [] u = "https://www.printavo.com/images/pixel.gif" -> ".gif"
      [] u = "https://www.printavo.com/attachments/12/design.dst" -> ".dst"
      [] OTHER -> ""

\* The filename built without the index.
generate_filename_without_index(base_name, url, index) ==
    base_name \o (IF UrlExt(url) = "" THEN ".png" ELSE UrlExt(url))

\* FileDetector.generate_filename(source_type, url, index). The source types
\* of the selector list are lower-case words, which the two re.sub calls,
\* lower() and strip('_') leave as they are.
generate_filename(base_name, url, index) ==
    LET ext == IF UrlExt(url) = "" THEN ".png" ELSE UrlExt(url)
    IN  IF index > 0 THEN base_name \o "_" \o ToString(index) \o ext
        ELSE base_name \o ext

\* Lines 307-311 for the files found: file.filename of each, in order.
Filenames(files) ==
    [i \in DOMAIN files |->
        generate_filename(files[i].source_type, files[i].url, files[i].index)]

\* _extract_file_urls is called again for the same page (a re-run of the
\* order): the filenames of the run before are kept for comparison.
ExtractAgain ==
    /\ exPc = "returned"
    /\ exPrev = <<"none">>
    /\ exPrev' = Filenames(exFiles)
    /\ exPc' = "select"
    /\ exSel' = 1
    /\ exFiles' = <<>>
    /\ exSeen' = {}
    /\ UNCHANGED exPage
    /\ UNCHANGED <<apiVars, scraperVars, downloadVars, recordVars, uploadVars,
                   detectorVars, requestVars, mainVars, orderVars, poolVars>>

NextFilenames ==
    \/ NextExtract
    \/ ExtractAgain

\* ======================================================================
\* PrintavoScraper: _download_files_parallel and the checkpoint
\* ======================================================================
\* How a call of _download_file ends:
\*   skipped     the output file exists (files_skipped += 1)
\*   downloaded  written and validated (files_downloaded, bytes_downloaded)
\*   failed      RequestException or failed validation (files_failed += 1)
\*   raised      another exception (an OSError of mkdir, open or write), which
\*               leaves _download_file and is caught around future.result()
WorkerOutcomes == {"skipped", "downloaded", "failed", "raised"}

\* file_size of the f-th file of a batch, in chunks.
FileSize(f) == f

NoPoolStats == [downloaded |-> 0, skipped |-> 0, failed |-> 0, bytes |-> 0]

\* The wait of _download_files_parallel ending with the first finished task.
SomeDone(w) == \E f \in DOMAIN w : w[f].pc = "done"

\* as_completed(futures) run to its end, and the executor's with block,
\* which waits for every task: all tasks have finished.
AllDone(w) == \A f \in DOMAIN w : w[f].pc = "done"

PoolUnused ==
    /\ plMain = "unused"
    /\ plN = 0
    /\ plInterval = CHECKPOINT_INTERVAL
    /\ plOrder = 0
    /\ plW = <<>>
    /\ plStats = NoPoolStats
    /\ plBefore = NoPoolStats
    /\ plCompleted = {}
    /\ plFile = NoScraperFile
    /\ plActor = "main"

\* scrape_orders is about to work on the first of plN orders.
PoolStart ==
    /\ plMain = "order"
    /\ plN \in 1..MaxPoolOrders
    /\ plInterval \in {1, CHECKPOINT_INTERVAL}
    /\ plOrder = 1
    /\ plW = <<>>
    /\ plStats = NoPoolStats
    /\ plBefore = NoPoolStats
    /\ plCompleted = {}
    /\ plFile = NoScraperFile
    /\ plActor = "main"

\* scrape_order up to line 536 and _download_files_parallel, lines 404-410:
\* the n files found on the order page are submitted to the executor.
Submit(n) ==
    /\ plMain = "order"
    /\ plMain' = "waiting"
    /\ plW' = [f \in 1..n |-> [pc |-> "queued", out |-> "none", tmp |-> 0]]
    /\ plBefore' = plStats
    /\ plActor' = "main"
    /\ UNCHANGED <<plN, plInterval, plOrder, plStats, plCompleted, plFile>>
    /\ UNCHANGED outsidePool

\* A worker thread takes a queued task and runs _download_file up to the
\* first counter update; no more than max_workers tasks run at a time.
WorkerRun(f, o) ==
    /\ plMain = "waiting"
    /\ f \in DOMAIN plW
    /\ plW[f].pc = "queued"
    /\ Cardinality({g \in DOMAIN plW : plW[g].pc \notin {"queued", "done"}})
          < MAX_CONCURRENT_DOWNLOADS
    /\ plW' = [plW EXCEPT ![f] = [pc |-> IF o = "raised" THEN "done" ELSE "read",
                                  out |-> o, tmp |-> 0]]
    /\ plActor' = "worker"
    /\ UNCHANGED <<plMain, plN, plInterval, plOrder, plStats, plBefore,
                   plCompleted, plFile>>
    /\ UNCHANGED outsidePool

\* self.stats.<counter> += ..., first half: the worker reads the counter.
WorkerRead(f) ==
    /\ f \in DOMAIN plW
    /\ plW[f].pc \in {"read", "read_bytes"}
    /\ plW' = [plW EXCEPT ![f].tmp = IF plW[f].pc = "read_bytes"
                                       THEN plStats.bytes
                                       ELSE plStats[plW[f].out],
                           ![f].pc = IF plW[f].pc = "read_bytes"
                                       THEN "write_bytes" ELSE "write"]
    /\ plActor' = "worker"
    /\ UNCHANGED <<plMain, plN, plInterval, plOrder, plStats, plBefore,
                   plCompleted, plFile>>
    /\ UNCHANGED outsidePool

\* self.stats.<counter> += ..., second half: the worker stores the sum.
\* After files_downloaded comes bytes_downloaded (lines 378-379).
WorkerWrite(f) ==
    /\ f \in DOMAIN plW
    /\ plW[f].pc \in {"write", "write_bytes"}
    /\ IF plW[f].pc = "write_bytes"
         THEN /\ plStats' = [plStats EXCEPT !.bytes = plW[f].tmp + FileSize(f)]
              /\ plW' = [plW EXCEPT ![f].pc = "done", ![f].tmp = 0]
         ELSE /\ plStats' = [plStats EXCEPT ![plW[f].out] = plW[f].tmp + 1]
              /\ plW' = [plW EXCEPT ![f].pc = IF plW[f].out = "downloaded"
                                                THEN "read_bytes" ELSE "done",
                                     ![f].tmp = 0]
    /\ plActor' = "worker"
    /\ UNCHANGED <<plMain, plN, plInterval, plOrder, plBefore, plCompleted,
                   plFile>>
    /\ UNCHANGED outsidePool

\* _download_files_parallel returns, lines 412-420.
Collect ==
    /\ plMain = "waiting"
    /\ AllDone(plW)
    /\ plMain' = "collected"
    /\ plActor' = "main"
    /\ UNCHANGED <<plN, plInterval, plOrder, plW, plStats, plBefore,
                   plCompleted, plFile>>
    /\ UNCHANGED outsidePool

\* scrape_order, lines 538-552, then scrape_orders, lines 616-621: the order
\* is marked complete and the periodic checkpoint is written when due.
FinishOrder ==
    /\ plMain = "collected"
    /\ plCompleted' = plCompleted \cup {plOrder}
    /\ plFile' = IF plOrder % plInterval = 0
                   THEN SaveCompleted(plCompleted') ELSE plFile
    /\ IF plOrder < plN
         THEN plMain' = "order" /\ plOrder' = plOrder + 1
         ELSE plMain' = "final" /\ plOrder' = plOrder
    /\ plActor' = "main"
    /\ UNCHANGED <<plN, plInterval, plW, plStats, plBefore>>
    /\ UNCHANGED outsidePool

\* scrape_orders, lines 623-624: the final checkpoint.
LastCheckpoint ==
    /\ plMain = "final"
    /\ plFile' = SaveCompleted(plCompleted)
    /\ plMain' = "returned"
    /\ plActor' = "main"
    /\ UNCHANGED <<plN, plInterval, plOrder, plW, plStats, plBefore, plCompleted>>
    /\ UNCHANGED outsidePool

NextPool ==
    \/ \E n \in 0..MaxBatch : Submit(n)
    \/ \E f \in 1..MaxBatch, o \in WorkerOutcomes : WorkerRun(f, o)
    \/ \E f \in 1..MaxBatch : WorkerRead(f)
    \/ \E f \in 1..MaxBatch : WorkerWrite(f)
    \/ Collect
    \/ FinishOrder
    \/ LastCheckpoint

\* ======================================================================
\* Specifications
\* ======================================================================
LaterUnused ==
    /\ DetectorUnused /\ RequestUnused /\ MainUnused /\ OrderUnused
    /\ exPrev = <<"none">> /\ PoolUnused

InitScraper == ApiUnused /\ ScraperStart /\ DownloadUnused /\ RecordUnused /\ ExtractUnused /\ UploadUnused /\ LaterUnused

SpecScraper == InitScraper /\ [][NextScraper]_vars

InitDownload == ApiUnused /\ ScraperUnused /\ DownloadStart /\ RecordUnused /\ ExtractUnused /\ UploadUnused /\ LaterUnused

InitRecord == ApiUnused /\ RecordStart /\ DownloadUnused /\ ExtractUnused /\ UploadUnused /\ LaterUnused

InitExtract == ApiUnused /\ ScraperUnused /\ DownloadUnused /\ RecordUnused /\ ExtractStart /\ UploadUnused /\ LaterUnused

SpecExtract == InitExtract /\ [][NextExtract]_vars

NothingButUpload == ApiUnused /\ ScraperUnused /\ DownloadUnused /\ RecordUnused /\ ExtractUnused /\ LaterUnused

InitSync == NothingButUpload /\ bucket \in SUBSET SyncObjects /\ UploadStart

SpecSync == InitSync /\ [][NextSync]_vars

InitArchive == NothingButUpload /\ bucket \in SUBSET (ExportObjects \cup ArtworkObjects) /\ UploadStart

SpecArchive == InitArchive /\ [][NextArchive]_vars

SpecRecord == InitRecord /\ [][NextRecord]_vars

\* Calls of one function of FileDetector.
InitDetector ==
    /\ ApiUnused /\ ScraperUnused /\ DownloadUnused /\ RecordUnused
    /\ ExtractUnused /\ UploadUnused
    /\ DetectorStart /\ RequestUnused /\ MainUnused /\ OrderUnused
    /\ exPrev = <<"none">> /\ PoolUnused

SpecDetector == InitDetector /\ [][NextDetector]_vars

\* Calls of request() on one client.
InitRequest == NothingButUpload /\ UploadUnused

SpecRequest == InitRequest /\ [][NextRequest]_vars

\* _extract_file_urls on one page, twice.
SpecFilenames == InitExtract /\ [][NextFilenames]_vars

\* One run of scrape_orders with its download workers.
InitPool ==
    /\ ApiUnused /\ ScraperUnused /\ DownloadUnused /\ RecordUnused
    /\ ExtractUnused /\ UploadUnused
    /\ DetectorUnused /\ RequestUnused /\ MainUnused /\ OrderUnused
    /\ exPrev = <<"none">> /\ PoolStart

SpecPool == InitPool /\ [][NextPool]_vars

\* One run of sync-artwork-minio-v2.
InitMain ==
    /\ ApiUnused /\ ScraperUnused /\ DownloadUnused /\ RecordUnused
    /\ ExtractUnused /\ UploadUnused
    /\ DetectorUnused /\ RequestUnused /\ MainStart /\ OrderUnused
    /\ exPrev = <<"none">> /\ PoolUnused

SpecMain == InitMain /\ [][NextMain]_vars

\* One call of upload_order.
InitOrder ==
    /\ ApiUnused /\ ScraperUnused /\ DownloadUnused /\ RecordUnused
    /\ ExtractUnused /\ UploadUnused
    /\ DetectorUnused /\ RequestUnused /\ MainUnused /\ OrderStart
    /\ exPrev = <<"none">> /\ PoolUnused

SpecOrder == InitOrder /\ [][NextOrder]_vars

SpecDownload == InitDownload /\ [][NextDownload]_vars

\* ======================================================================
\* Specifications of the paginated client
\* ======================================================================
\* One client's life: any calls, any server behaviour.
NextApi ==
    \/ \E e \in Endpoints : CallFetch(e)
    \/ CallIter
    \/ Send
    \/ \E o \in Outcomes : Respond(o)
    \/ FetchPage
    \/ SaveCursor
    \/ SaveData
    \/ IterPage

InitApi == ApiSource /\ ApiStart /\ ScraperUnused /\ DownloadUnused /\ RecordUnused /\ ExtractUnused /\ UploadUnused /\ LaterUnused

SpecApi == InitApi /\ [][NextApi]_vars

\* The bulk fetch and the streaming iterator of orders, one after the other.
NextStream ==
    \/ NextFetch("orders")
    \/ NextIter
    \/ Send
    \/ \E o \in Outcomes : Respond(o)
    \/ FetchPage
    \/ SaveCursor
    \/ SaveData
    \/ IterPage

SpecStream == InitApi /\ [][NextStream]_vars

\* Extraction runs that stop at any point and are started again.
NextResume ==
    \/ \E e \in Endpoints : CallFetch(e)
    \/ Send
    \/ \E o \in {"ok", "error"} : Respond(o)
    \/ FetchPage
    \/ SaveCursor
    \/ SaveData
    \/ Crash
    \/ CrashInWrite

SpecResume == InitApi /\ [][NextResume]_vars

\* ======================================================================
\* Properties of the paginated client
\* ======================================================================
Range(seq) == {seq[i] : i \in DOMAIN seq}

NoDuplicates(seq) == \A i, j \in DOMAIN seq : seq[i] = seq[j] => i = j

\* The page an item identifier belongs to.
PageOf(id) == id \div 10

RECURSIVE SumSizes(_)
SumSizes(ps) ==
    IF ps = {} THEN 0
    ELSE LET p == CHOOSE x \in ps : TRUE IN PageSize(p) + SumSizes(ps \ {p})

\* Some request() of the call gave up and returned None.
Failed(r) == \E i \in DOMAIN r.resp : r.resp[i][2] = "none"

\* What a run that is never interrupted and never refused returns.
Uninterrupted == ConcatPages(1, TotalPages)

\* C1: a client started on the checkpoint file left by a stopped run, calling
\* fetch_paginated for an endpoint, requests no page below the cursor the
\* file records and returns the entity list of an uninterrupted run.
C1_ResumeMatchesUninterrupted ==
    (pc = "idle" /\ ret.mode = "fetch" /\ ret.resumed /\ ret.first /\ ~Failed(ret))
        => /\ \A i \in DOMAIN ret.sends : ret.sends[i] >= ret.cursor0
           /\ ret.result = Uninterrupted

\* C4: the list fetch_paginated returns holds no identifier twice and is as
\* long as the pages it covers are large.
C4_NoDuplicateEntities ==
    ret.mode = "fetch"
        => /\ NoDuplicates(ret.result)
           /\ Len(ret.result) = SumSizes({PageOf(id) : id \in Range(ret.result)})

\* C5: with no checkpoint entry and a server that answers every request, the
\* requests are for pages 1, 2, ..., total_pages, one HTTP request each, none
\* sent while another is unanswered, and the result is the pages' items in
\* page order; a bare array is one page.
C5_SequentialPages ==
    /\ inflight <= 1
    /\ pc = "send" => inflight = 0
    /\ (mode = "fetch" /\ cur.fresh /\ cur.clean)
          => /\ sends = [i \in 1..Len(sends) |-> i]
             /\ Len(sends) <= (IF srcWrapped THEN srcT ELSE 1)
             /\ pc = "page" => last.attempt = 0
    /\ (ret.mode = "fetch" /\ ret.fresh /\ ret.clean)
          => /\ ret.sends = [i \in 1..(IF srcWrapped THEN srcT ELSE 1) |-> i]
             /\ ret.result = (IF srcWrapped THEN ConcatPages(1, srcT) ELSE PageItems(1))

C5_Witness ==
    /\ ret.mode = "fetch" /\ ret.fresh /\ ret.clean
    /\ srcWrapped /\ srcT = 2 /\ srcEmpty = 0
    /\ ret.sends = <<1, 2>>
    /\ Len(ret.result) = PageSize(1) + PageSize(2)

\* C6: when the request for a page fails for good (here: after a page of the
\* same call was answered, so that total_pages is known), fetch_paginated
\* still requests every later page up to total_pages.
C6_BadPageDoesNotEndResource ==
    ret.mode = "fetch"
        => \A i \in DOMAIN ret.resp :
              (i > 1 /\ ret.resp[i][2] = "none")
                  => \A q \in (ret.resp[i][1] + 1)..TotalPages : q \in Range(ret.sends)

\* C7: at least REQUEST_DELAY is slept between any two consecutive HTTP
\* requests of one client.
C7_MinimumDelay == (pc = "wait" /\ gap # -1) => gap >= 600

\* C8: request() makes at most MAX_RETRIES attempts, all for the same page,
\* sleeps 5 * 2^attempt s after a 429 and 2^attempt s after a timeout or
\* network error that is followed by another attempt, can always take its
\* next step, and hands back the JSON or None.
C8_RequestTerminates ==
    /\ attempt \in 0..2
    /\ last.attempt \in -1..2
    /\ pc \in {"send", "wait"} => attempt = last.attempt + 1
    /\ (pc \in {"wait", "page"} \/ (pc = "send" /\ attempt > 0))
          => (sends # <<>> /\ sends[Len(sends)] = page)
    /\ last.outcome = "rate_limited" => last.sleep = 5000 * Pow2(last.attempt)
    /\ (last.outcome \in {"timeout", "error"} /\ pc \in {"send", "wait"})
          => last.sleep = 1000 * Pow2(last.attempt)
    /\ pc = "send" => ENABLED Send
    /\ pc = "wait" => ENABLED (\E o \in Outcomes : Respond(o))
    /\ pc = "page" => /\ response \in {"json", "none"}
                      /\ (response = "json") <=> (last.outcome = "ok")

C8_Witness ==
    /\ pc = "page"
    /\ response = "none"
    /\ last.attempt = 2
    /\ last.outcome = "rate_limited"

\* C9: after a page with no items fetch_paginated sends no further request.
C9_StopsOnEmptyPage ==
    mode = "fetch"
        => \A i \in DOMAIN respLog :
              (respLog[i][2] = "json" /\ PageItems(respLog[i][1]) = <<>>)
                  => i = Len(respLog) /\ pc \notin {"send", "wait"}

\* C10: given the same answers from the server, iter_orders requests the pages
\* fetch_paginated('orders') requests on a client without a checkpoint, and
\* yields the entities it returns, in the same order.
SameAnswers(a, b) ==
    \A i \in DOMAIN a \cap DOMAIN b : a[i] = b[i]

C10_StreamMatchesBulk ==
    ( /\ ret.mode # "none" /\ prev.mode # "none" /\ ret.mode # prev.mode
      /\ ret.fresh /\ prev.fresh
      /\ SameAnswers(ret.resp, prev.resp) )
        => ret.sends = prev.sends /\ ret.result = prev.result

\* ======================================================================
\* Properties of the scraper
\* ======================================================================
\* C2: when an interrupt ends scrape_orders, the checkpoint file lists exactly
\* the records completed so far, and the next run over the same records with
\* the same file works on exactly the others.
C2_InterruptFlushesCheckpoint ==
    /\ scrPc = "exited" => LoadCompleted(scrFile) = completed
    /\ (interrupted /\ run = 2 /\ scrPc = "returned")
          => worked = (1..nOrders) \ exitCompleted

\* C3: a file is reported as downloaded only if its content on disk was
\* written in full and validated, and once _download_file is over no other
\* non-empty file is left at an output path.
C3_NoPartialFileReferenced ==
    /\ \A f \in flagged : f \in validated
    /\ dlPc = "idle" => \A f \in Files : disk[f].size > 0 => f \in validated

\* C14: when the body written for a file carries the magic-byte signature of
\* a FileType other than the one expected from the file's URL, validation
\* fails: the file is deleted, files_failed grows by one, files_downloaded
\* does not, and the file is not reported as downloaded.
C14_MismatchIsDiscarded ==
    [][ ( /\ FinishDownload
          /\ disk[dlFile].size > 0
          /\ ExpectedType(dlFile) # "unknown"
          /\ disk[dlFile].kind \notin {"unknown", ExpectedType(dlFile)} )
        => /\ disk'[dlFile] = NoDiskFile
           /\ dlStats'.failed = dlStats.failed + 1
           /\ dlStats'.downloaded = dlStats.downloaded
           /\ dlFile \notin flagged' ]_vars

\* C15: a call of _download_file for a path that exists with non-zero size
\* sends no HTTP request, leaves the disk as it is, adds one to files_skipped
\* and changes no other counter; no call sends a request for such a path.
C15_ExistingFileIsSkipped ==
    [][ \A f \in Files :
          (dlPc = "idle" /\ dlFile' = f /\ dlCalls' = dlCalls + 1 /\ disk[f].size > 0)
            => /\ dlGets' = dlGets
               /\ dlPc' = "idle"
               /\ disk' = disk
               /\ dlStats' = [dlStats EXCEPT !.skipped = @ + 1] ]_vars

C15_Witness ==
    /\ dlPc = "idle"
    /\ dlStats.skipped = 2
    /\ dlStats.downloaded = 1
    /\ dlGets = 1
    /\ disk[dlFile].size > 0

\* C11: a record is added to the completed set only by the scrape_order call
\* working on it, after its page was fetched and, when the page listed files,
\* after the download step was over and the manifest was written.
C11_CompleteOnlyAfterManifest ==
    [][ \A id \in RecordIds :
          (id \notin completed /\ id \in completed')
            => /\ rec.id = id
               /\ rec.fetched
               /\ rec'.found > 0 => (rec.downloaded >= 0 /\ rec.manifest) ]_vars

\* C12: scrape_order for a record in the completed set only returns
\* 'skipped': it sends no request, downloads nothing, writes no manifest and
\* changes no counter, no checkpoint state and no login state.
C12_SkipChangesNothing ==
    [][ ( /\ \E public \in BOOLEAN : BeginOrder(public)
          /\ orders[idx + 1] \in completed )
        => /\ lastResult' = "skipped"
           /\ scrPc' = "interval"
           /\ UNCHANGED <<pageGets, manifests, recStats, completed, scrFile,
                          loggedIn, logins, rec, idx>>
           /\ UNCHANGED <<dlGets, dlStats, disk>> ]_vars

C12_Witness ==
    /\ lastResult = "skipped"
    /\ scrPc = "interval"
    /\ run = 1
    /\ orders = <<1, 1>>
    /\ idx = 1
    /\ pageGets > 0

\* C13: the logged-in flag is set only when the credential POST ended at a
\* URL holding a landing marker; after any other outcome of login the run
\* has returned the error result, with one login call, no order page
\* requested and no record marked complete; order pages are requested only
\* when logged in.
C13_LoginFailsClosed ==
    /\ loggedIn => landing \in LandingMarkers
    /\ (landing \notin LandingMarkers /\ scrPc \notin {"call", "login_get", "login_post"})
          => scrPc \in {"login_failed"}
    /\ scrPc = "login_failed"
          => /\ ~loggedIn
             /\ logins = 1
             /\ pageGets = 0
             /\ idx = 0
             /\ recStats = NoRecStats
             /\ completed = LoadCompleted(scrFile)
    /\ pageGets > 0 => loggedIn

C13_Witness ==
    /\ scrPc = "login_failed"
    /\ landing = "elsewhere"
    /\ logins = 1
    /\ run = 2
    /\ completed # {}

\* C16: the list returned by _extract_file_urls never holds two files with
\* the same URL.
C16_NoDuplicateUrls ==
    exPc = "returned"
        => \A i, j \in DOMAIN exFiles : exFiles[i].url = exFiles[j].url => i = j

\* C17: no file returned by _extract_file_urls has a URL with a noise pattern
\* in its path, and a page of one img .../mockup_final.png and one img
\* .../pixel.gif yields exactly one file, of type artwork and source 'mockup'.
C17_NoNoiseReturned ==
    exPc = "returned"
        => /\ \A i \in DOMAIN exFiles : ~NoisePath(exFiles[i].url)
           /\ ( /\ Len(exPage) = 2
                /\ {exPage[1].url, exPage[2].url}
                      = {"https://www.printavo.com/uploads/mockup_final.png",
                         "https://www.printavo.com/images/pixel.gif"} )
                 => /\ Len(exFiles) = 1
                    /\ exFiles[1].file_type = "artwork"
                    /\ exFiles[1].source_type = "mockup"

\* ======================================================================
\* Properties of the uploader
\* ======================================================================
\* C18: sync_directory never uploads over an object that exists, and a
\* call on a bucket that holds every target object uploads nothing and
\* skips every local file.
C18_SyncIsIdempotent ==
    /\ upOp = "sync" => upOver = {}
    /\ (upRet.op = "sync" /\ upRet.status = "success" /\ upRet.full)
          => upRet.uploaded = 0 /\ upRet.skipped = MaxSyncFiles

\* C19: an archival pass on a bucket that holds every export and artwork
\* object uploads none of them and counts each of them as skipped.
C19_ArchiveIsIdempotent ==
    /\ upOp = "archive" /\ upFull => upOver \cap (ExportObjects \cup ArtworkObjects) = {}
    /\ (upRet.op = "archive" /\ upRet.status = "success" /\ upRet.full)
          => /\ upRet.stats.files_uploaded = 0
             /\ upRet.stats.files_skipped = MaxExportFiles + MaxArtworkFiles

\* C20: the error list never holds more than a fixed number of entries,
\* however many uploads fail; files_failed counts every failed upload and
\* every entry names a path and an error text.
C20_ErrorListIsBounded ==
    /\ Len(upErrors) <= MaxErrorList
    /\ \A i \in DOMAIN upErrors : upErrors[i].path # <<>> /\ upErrors[i].text # ""

\* ======================================================================
\* FileDetector
\* ======================================================================
\* C23: for an extension name, categorize_extension returns one FileType for
\* the name, the name with a leading dot and the upper-cased dotted name, and
\* a repeated call with the same input returns what the earlier call did.
C23_SpellingsAgree ==
    /\ [](\A v, w \in DOMAIN fdCat :
            (fdCat[v] # "none" /\ fdCat[w] # "none") => fdCat[v] = fdCat[w])
    /\ [][\A v \in DOMAIN fdCat : fdCat[v] # "none" => fdCat'[v] = fdCat[v]]_vars

C23_Witness ==
    /\ fdExt = <<"d", "s", "t">>
    /\ \A v \in DOMAIN fdCat : fdCat[v] = "embroidery"

\* C24: get_priority puts embroidery strictly above vector and above source,
\* vector and source each strictly above document, document strictly above
\* artwork and artwork strictly above unknown.
C24_PriorityOrder ==
    (\A t \in FileTypes : fdPrio[t] # -1)
        => /\ fdPrio["embroidery"] > fdPrio["vector"]
           /\ fdPrio["embroidery"] > fdPrio["source"]
           /\ fdPrio["vector"] > fdPrio["document"]
           /\ fdPrio["source"] > fdPrio["document"]
           /\ fdPrio["document"] > fdPrio["artwork"]
           /\ fdPrio["artwork"] > fdPrio["unknown"]

\* C25: validate_file returns invalid for a path that does not exist, for an
\* empty file and for a file of fewer than 10 bytes, and returns OK for a
\* file of at least 10 bytes whose leading bytes carry the signature of the
\* expected type.
C25_ValidateFile ==
    fdVal.message # "none"
        => LET f == fdVal.file
           IN  /\ ~f.exists => fdVal.message # "OK"
               /\ f.size < MIN_FILE_SIZE => fdVal.message # "OK"
               /\ ( /\ f.exists
                    /\ f.size >= MIN_FILE_SIZE
                    /\ fdVal.expected \in FileTypes \ {"unknown"}
                    /\ detect_from_content(f.size, f.head) = fdVal.expected )
                     => fdVal.message = "OK"

\* ======================================================================
\* PrintavoAPI: the checkpoint file and stats.errors
\* ======================================================================
\* C26: whenever the checkpoint file holds a cursor for a resource, the
\* pages whose items the file's data of that resource holds are the pages
\* below the cursor (pages without items aside): the cursor is neither
\* ahead of the data saved with it nor behind it.
C26_CursorMatchesData ==
    file.state = "ok"
        => \A e \in Endpoints :
              file.ck[e].hasPage
                 => {PageOf(id) : id \in Range(file.ck[e].data)}
                      = {p \in 1..(file.ck[e].page - 1) : PageItems(p) # <<>>}

\* C27: when request() has returned None, the call has appended at least
\* one entry to stats.errors.
C27_FailureIsRecorded ==
    (rqPc = "returned" /\ rqRet = "none") => rqErrors > rqErrors0

\* ======================================================================
\* sync-artwork-minio-v2
\* ======================================================================
\* C22: a run of main that reached its loop has saved the checkpoint when
\* the process exits; with no signal received it has by then started the
\* upload of every pending order, in the order of the list; and no upload
\* is started once a signal was received.
C22_LoopRunsUntilSignal ==
    /\ [](avPc = "exited" /\ avPending # <<>>
            => /\ avSaved
               /\ ~avShutdown => avStarted = avPending)
    /\ [][avShutdown => avStarted' = avStarted]_vars

\* C28: when upload_order returns success, every file of the order folder
\* is stored in the bucket.
C28_SuccessMeansAllStored ==
    uoRet = "true" => uoStored = 1..uoN

\* ======================================================================
\* _extract_file_urls: the filenames
\* ======================================================================
\* C30: the filenames assigned to the files found on one page are pairwise
\* distinct, and a second extraction of the same page assigns the same
\* filenames to the same files.
C30_FilenamesDistinctAndStable ==
    /\ NoDuplicates(Filenames(exFiles))
    /\ (exPc = "returned" /\ exPrev # <<"none">>)
          => Filenames(exFiles) = exPrev

C30_Witness ==
    /\ exPc = "returned"
    /\ Len(exFiles) >= 2
    /\ exFiles[1].source_type = exFiles[2].source_type
    /\ exPrev = Filenames(exFiles)

\* ======================================================================
\* The download workers
\* ======================================================================
\* C21: a step that changes the completed-record set or the checkpoint file
\* is a step of the thread running scrape_orders, and the checkpoint file
\* is written only while no submitted download task is unfinished.
C21_SingleWriter ==
    [][ /\ (plCompleted' # plCompleted \/ plFile' # plFile) => plActor' = "main"
        /\ plFile' # plFile => \A f \in DOMAIN plW : plW[f].pc = "done"
      ]_vars

C21_Witness ==
    /\ plMain = "returned"
    /\ plFile = SaveCompleted({1})
    /\ Len(plW) = 2
    /\ plStats.downloaded >= 2

\* The total size of a set of files of a batch.
RECURSIVE SumFileSizes(_)
SumFileSizes(fs) ==
    IF fs = {} THEN 0
    ELSE LET f == CHOOSE x \in fs : TRUE IN FileSize(f) + SumFileSizes(fs \ {f})

\* C29: when _download_files_parallel has returned, files_downloaded +
\* files_skipped + files_failed has grown by the number of files submitted
\* and bytes_downloaded by the total size of the files downloaded.
C29_CountersAddUp ==
    plMain = "collected"
        => /\ (plStats.downloaded + plStats.skipped + plStats.failed)
                 - (plBefore.downloaded + plBefore.skipped + plBefore.failed)
               = Len(plW)
           /\ plStats.bytes - plBefore.bytes
               = SumFileSizes({f \in DOMAIN plW : plW[f].out = "downloaded"})

====
